---- MODULE Spec2Model ----
(***************************************************************************)
(* The hierarchical state-machine runtime of src/FSM.ts (State, SubState,  *)
(* FSM), executed step by step on an explicit call stack.  The runtime is  *)
(* synchronous and recursive: a handler's transition runs an entry         *)
(* sequence, which dispatches "launch" and drains the deferral queue,      *)
(* which dispatches again.  Every frame of the stack is one activation of  *)
(* a method of FSM.ts; user code (handlers, lifecycle hooks and the        *)
(* policy hook onUnconsumedEvt) is the only place where control leaves the *)
(* runtime, so every step ends at a call of user code or at a nested call  *)
(* of the runtime.  A driver calls the public methods: start, handleEvent, *)
(* processDeferralQueue, and react of the active state.                    *)
(***************************************************************************)
EXTENDS Integers, Sequences, FiniteSets, TLC

\* ---------------------------------------------------------------- bounds
\* number of State objects constructed during one run
MaxInst == 4
\* number of deferred events that may wait at once: a driver holds back the
\* events some state defers while that many wait
MaxQueue == 3
\* number of times a driver lets one state object be entered: it stops
\* calling start() on a state whose onEntry has failed that often
MaxEntry == 2

VARIABLES
    heap,           \* the State objects constructed so far (index = identity)
    currState,      \* FSM.currState
    started,        \* FSM.started
    smBusy,         \* FSM.smBusy
    deferralQueue,  \* FSM.deferralQueue
    policy,         \* which onUnconsumedEvt the engine class has
    stack,          \* call stack of the runtime, innermost frame last
    exc,            \* exception in flight
    call,           \* the top-level call the driver is waiting for
    trace           \* calls of user code and of the logger, and pushes on
                    \* the deferral queue, in this call

vars == <<heap, currState, started, smBusy, deferralQueue, policy,
          stack, exc, call, trace>>

\* ------------------------------------------------- the states of the host
\* A host program is a set of State subclasses.  Root and Idle are plain
\* states, Mid and Leaf are SubStates, Z is a plain state constructed with
\* isFinal.  Idle defines no handler at all; Z defines one, which the engine
\* must never reach.
Classes == {"Root", "Mid", "Leaf", "Idle", "Z"}

\* events a driver submits, with the payloads they carry ("null" = none)
Events == {"go", "key", "done", "bad", "nop"}

\* --------------------------------------- a host whose hooks do something
\* Home is a plain initial state, Child a SubState, Target and Side are
\* plain states.  The lifecycle hooks of these classes are overridden: some
\* call handleEvent on their own engine, onEntry of Target can throw.
HookClasses == {"Home", "Child", "Target", "Side"}

HookEvents == {"go", "sub", "ret", "ping", "key"}

HookHandlerDefs ==
    { <<"Home", "go">>, <<"Home", "sub">>, <<"Home", "ping">>, <<"Home", "key">>,
      <<"Child", "ret">>, <<"Child", "ping">>,
      <<"Target", "key">>, <<"Target", "ping">> }

\* what an overridden hook can do: return, throw, or call
\* this.fsm.handleEvent(...) and return; a hook that is not overridden
\* (onEntry, beforeExit, onPreemption, onResumeFromSubstate of State,
\* getReturnPayload of SubState) returns
HookBody(c, h) ==
    CASE c = "Home" /\ h \in {"beforeExit", "onPreemption", "onResumeFromSubstate"}
                                              -> {"return", "reenter"}
      [] c = "Child" /\ h = "getReturnPayload" -> {"return", "reenter"}
      [] c = "Target" /\ h = "onEntry"         -> {"return", "throw", "reenter"}
      [] OTHER                                 -> {"return"}

\* the event a re-entrant hook submits
HookEvent(c, h) == IF h = "getReturnPayload" THEN "key" ELSE "ping"

\* ------------------------------------------------ the states of the game
\* GameEngineFSM: PreStart is the state the engine is constructed with,
\* TeleportingSubState is the one SubState, the others are plain states
GameClasses == {"PreStart", "PlayingRound", "TeleportingSubState", "RoundEnded", "GameOver"}

\* the events the GUI and the timers of the states submit
GameEvents == {"game_configured", "key_press", "teleport_complete", "round_end", "ready_to_host"}

\* the on_<event> methods the classes of the game define
GameHandlerDefs ==
    { <<"PreStart", "game_configured">>,
      <<"PlayingRound", "key_press">>, <<"PlayingRound", "round_end">>,
      <<"TeleportingSubState", "key_press">>, <<"TeleportingSubState", "teleport_complete">>,
      <<"RoundEnded", "launch">>, <<"RoundEnded", "ready_to_host">> }

\* the classes of the game whose constructor passes isFinal = true to
\* super(): none, GameOver calls super() without an argument
GameFinalClasses == {}

Payloads(e) == IF e \in {"key", "key_press", "game_configured"} THEN {"A"} ELSE {"null"}

\* (class, event) pairs for which the class defines an on_<event> method
HandlerDefs ==
    { <<"Root", "go">>, <<"Root", "key">>, <<"Root", "done">>, <<"Root", "bad">>,
      <<"Mid", "go">>, <<"Mid", "key">>,
      <<"Leaf", "key">>, <<"Leaf", "launch">>,
      <<"Z", "key">> }

Ret(k) == [k |-> k, c |-> "-"]

\* the values other than State instances that the validation of react lets
\* through: undefined, null, and every string s with `s in SpecialTransition`,
\* which holds for the three transition values and also for the other
\* property names of the object, inherited ones included
AcceptedByReact ==
    {"undefined", "nullTransition", "deferralTransition", "ReturnToParent", "toString"}

New(c) == [k |-> "new", c |-> c]

\* variant: on_teleport_complete builds a new PlayingRound instead of
\* returning to the one that was preempted
GameOn_TeleportRestartsRound(c, e) ==
    CASE c = "PreStart" /\ e = "game_configured" -> {New("PlayingRound")}
      [] c = "PlayingRound" /\ e = "key_press" -> {Ret("undefined"), New("TeleportingSubState")}
      [] c = "PlayingRound" /\ e = "round_end" -> {New("RoundEnded")}
      [] c = "TeleportingSubState" /\ e = "key_press" -> {Ret("deferralTransition")}
      [] c = "TeleportingSubState" /\ e = "teleport_complete" -> {New("PlayingRound")}
      [] c = "RoundEnded" /\ e = "launch" -> {New("GameOver"), Ret("undefined")}
      [] c = "RoundEnded" /\ e = "ready_to_host" -> {New("PlayingRound")}
      [] OTHER -> {}

\* the handlers of the game: on_key_press of PlayingRound returns nothing,
\* or a TeleportingSubState when the move ends on a wormhole entrance;
\* on_launch of RoundEnded returns a GameOver when one active player is left
GameOn(c, e) ==
    CASE c = "PreStart" /\ e = "game_configured" -> {New("PlayingRound")}
      [] c = "PlayingRound" /\ e = "key_press" -> {Ret("undefined"), New("TeleportingSubState")}
      [] c = "PlayingRound" /\ e = "round_end" -> {New("RoundEnded")}
      [] c = "TeleportingSubState" /\ e = "key_press" -> {Ret("deferralTransition")}
      [] c = "TeleportingSubState" /\ e = "teleport_complete" -> {Ret("ReturnToParent")}
      [] c = "RoundEnded" /\ e = "launch" -> {New("GameOver"), Ret("undefined")}
      [] c = "RoundEnded" /\ e = "ready_to_host" -> {New("PlayingRound")}
      [] OTHER -> {}

\* the handlers of the host with hooks
HookOn(c, e) ==
    CASE c = "Home" /\ e = "go"     -> {New("Target")}
      [] c = "Home" /\ e = "sub"    -> {New("Child")}
      [] c = "Home" /\ e = "ping"   -> {New("Side")}
      [] c = "Home" /\ e = "key"    -> {Ret("deferralTransition")}
      [] c = "Child" /\ e = "ret"   -> {Ret("ReturnToParent")}
      [] c = "Child" /\ e = "ping"  -> {Ret("nullTransition")}
      [] c = "Target" /\ e = "key"  -> {Ret("nullTransition")}
      [] c = "Target" /\ e = "ping" -> {Ret("nullTransition")}
      [] OTHER -> {}

\* what the body of on_<e> of class c can do: return a transition value,
\* return something else ("improper": a value react refuses, such as a number;
\* "toString": a string that is no transition value but names a property of
\* the SpecialTransition object), throw, or call handleEvent on its own engine
on(c, e) ==
    CASE c = "Root" /\ e = "go"   -> {New("Mid")}
      [] c = "Root" /\ e = "key"  -> {Ret("nullTransition"), Ret("deferralTransition"), New("Mid"), New("Z"),
                                      Ret("ReturnToParent"), Ret("improper"), Ret("throw")}
      [] c = "Root" /\ e = "done" -> {Ret("ReturnToParent"), New("Idle"), New("Z")}
      [] c = "Root" /\ e = "bad"  -> {Ret("improper"), Ret("toString"), Ret("throw"), Ret("reenter"),
                                      Ret("reenterCatch")}
      [] c = "Mid"  /\ e = "go"   -> {New("Leaf")}
      [] c = "Mid"  /\ e = "key"  -> {Ret("deferralTransition"), New("Z")}
      [] c = "Leaf" /\ e = "key"  -> {Ret("deferralTransition"), Ret("ReturnToParent"), Ret("undefined"),
                                      New("Idle")}
      [] c = "Leaf" /\ e = "launch" -> {Ret("nullTransition"), Ret("ReturnToParent")}
      [] c = "Z"    /\ e = "key"  -> {Ret("deferralTransition")}
      [] c \in GameClasses -> GameOn(c, e)
      [] c \in HookClasses -> HookOn(c, e)
      [] OTHER -> {}

\* State.on_launch of the base class
on_launch == {Ret("nullTransition")}

\* the event a re-entrant handler submits to its own engine
ReenterEvents == {"go"}

\* ------------------------------------------------------------ State class
NoState == 0

\* new State(isFinal) / new SubState(parent)
NewObject(c, p) ==
    [cls |-> c, parent |-> p, inited |-> FALSE, nEntry |-> 0, nExit |-> 0]

IsSubStateClass(c) == c \in {"Mid", "Leaf", "TeleportingSubState", "Child"}

\* `x instanceof SubState`
IsSubState(s) == IsSubStateClass(heap[s].cls)

\* State.isFinal as the subclass constructor passes it
isFinal(c) == c = "Z" \/ c \in GameFinalClasses

\* State.final()
final(s) == isFinal(heap[s].cls)

\* the on_<event> methods of all host classes
AllHandlerDefs == HandlerDefs \cup GameHandlerDefs \cup HookHandlerDefs

\* `this["on_" + evtName] !== undefined`
HasHandler(s, e) == e = "launch" \/ <<heap[s].cls, e>> \in AllHandlerDefs

\* the outcomes of the method found by the lookup
HandlerBody(s, e) ==
    IF <<heap[s].cls, e>> \in AllHandlerDefs
    THEN on(heap[s].cls, e) ELSE on_launch

\* the parent chain of s, leaf first
RECURSIVE Chain(_)
Chain(s) == IF IsSubState(s) THEN <<s>> \o Chain(heap[s].parent) ELSE <<s>>

\* State.react up to the call of the handler: the lookup succeeds at `owner`
\* or raises UnhandledEvtException(owner.name, evtName); `visited` are the
\* objects whose react ran (each sets this.inited)
StateReact(s, e) == [found |-> HasHandler(s, e), owner |-> s, visited |-> {s}]

\* variant: no catch, the SubState's own UnhandledEvtException gets out
SubStateReact_NoBubbling(s, e) == StateReact(s, e)

\* variant: the root of the chain is asked before the SubState itself
SubStateReact_RootFirst(s, e) ==
    LET ch   == Chain(s)
        root == ch[Len(ch)]
    IN  IF HasHandler(root, e)
        THEN [found |-> TRUE, owner |-> root, visited |-> {ch[i] : i \in 1..Len(ch)}]
        ELSE StateReact(s, e)

RECURSIVE SubStateReact(_, _)
\* SubState.react: try the own lookup, on UnhandledEvtException ask the parent
SubStateReact(s, e) ==
    LET own == StateReact(s, e)
    IN  IF IsSubState(s) /\ ~own.found
        THEN LET up == SubStateReact(heap[s].parent, e)
             IN  [up EXCEPT !.visited = @ \cup {s}]
        ELSE own

\* currState.react(evtName, evtData) with dynamic dispatch
react(s, e) == IF IsSubState(s) THEN SubStateReact(s, e) ELSE StateReact(s, e)

\* ------------------------------------------------------------ exceptions
NoExc == [kind |-> "none", st |-> NoState, evt |-> "-"]

Raise(kind) == [kind |-> kind, st |-> NoState, evt |-> "-"]

\* new UnhandledEvtException(this.name, evtName)
UnhandledEvtException(s, e) == [kind |-> "UnhandledEvtException", st |-> s, evt |-> e]

\* new ImproperReactionException(this.name, evtName, typeof transition)
ImproperReactionException(s, e) == [kind |-> "ImproperReactionException", st |-> s, evt |-> e]

\* variant: the smBusy test is missing
check_NoBusyTest ==
    IF ~started THEN "SMInactiveException"
    ELSE IF final(currState) THEN "FinalityReachedException"
    ELSE "none"

\* variant: the final() test is missing
check_NoFinalTest ==
    IF ~started THEN "SMInactiveException"
    ELSE IF smBusy THEN "RecursiveEventException"
    ELSE "none"

\* variant: the started test is missing
check_NoStartedTest ==
    IF final(currState) THEN "FinalityReachedException"
    ELSE IF smBusy THEN "RecursiveEventException"
    ELSE "none"

\* variant: the final() test comes first
ReadyCheck_FinalFirst(isStarted, isFinalState, isBusy) ==
    IF isFinalState THEN "FinalityReachedException"
    ELSE IF ~isStarted THEN "SMInactiveException"
    ELSE IF isBusy THEN "RecursiveEventException"
    ELSE "none"

\* the if / else-if chain of checkIfFSMReadyToHandleEvt over the three
\* values it reads: the exception it throws, "none" if it returns
ReadyCheck(isStarted, isFinalState, isBusy) ==
    IF ~isStarted THEN "SMInactiveException"
    ELSE IF isFinalState THEN "FinalityReachedException"
    ELSE IF isBusy THEN "RecursiveEventException"
    ELSE "none"

\* FSM.checkIfFSMReadyToHandleEvt: the exception it throws, "none" if ready
checkIfFSMReadyToHandleEvt == ReadyCheck(started, final(currState), smBusy)

\* ------------------------------------------------------------ call stack
\* a transition value: undefined, a SpecialTransition string, or a State
Value(k) == [k |-> k, inst |-> NoState]

StateValue(s) == [k |-> "State", inst |-> s]

\* one activation: the method, the statement it is at, and its locals; a
\* drain pass also remembers the snapshot it took and where the trace stood
Frame(fn, pc) ==
    [fn |-> fn, pc |-> pc, evt |-> "-", data |-> "null", st |-> NoState,
     tr |-> Value("undefined"), payload |-> 0, local |-> <<>>, cur |-> 0,
     snap |-> <<>>, t0 |-> 0]

EventFrame(fn, pc, e, d) == [Frame(fn, pc) EXCEPT !.evt = e, !.data = d]

Top == stack[Len(stack)]

Pop == SubSeq(stack, 1, Len(stack) - 1)

SetTop(f) == [stack EXCEPT ![Len(stack)] = f]

Running == stack # <<>> /\ exc.kind = "none"

Throwing == stack # <<>> /\ exc.kind # "none"

Log(op, s, e, a) == Append(trace, [op |-> op, st |-> s, evt |-> e, arg |-> a])

Log2(op1, op2, s) ==
    trace \o << [op |-> op1, st |-> s, evt |-> "-", arg |-> 0],
                [op |-> op2, st |-> s, evt |-> "-", arg |-> 0] >>

\* the activation of the hook h of state s
HookFrame(s, h) == [Frame("hook", "body") EXCEPT !.st = s, !.evt = h]

\* the engine calls s.h() and goes on with the stack stk when it returns;
\* a hook that is not overridden returns at once
CallHook(stk, s, h) ==
    IF HookBody(heap[s].cls, h) = {"return"} THEN stk ELSE Append(stk, HookFrame(s, h))

\* ------------------------------------------------ deferred-event identity
\* Every queued entry carries the rank of its push among the entries that
\* are still waiting (bookkeeping of the model, not a field of the code).
Max(S) == CHOOSE x \in S : \A y \in S : y <= x

Ids(q) == {q[i].id : i \in 1..Len(q)}

FrameIds(f) == Ids(f.snap) \cup {f.cur}

LiveIds == Ids(deferralQueue) \cup UNION {FrameIds(stack[i]) : i \in 1..Len(stack)}

NextId == Max(LiveIds \cup {0}) + 1

Renumbered(q) ==
    [i \in 1..Len(q) |-> [q[i] EXCEPT !.id = Cardinality({j \in Ids(q) : j <= q[i].id})]]

\* ------------------------------------------------------------ the driver
\* new FSM(startStateFetcher, logger): the fetcher's state is the first object
Init ==
    /\ \E c \in {"Root", "Z"} : heap = <<NewObject(c, NoState)>>
    /\ currState = 1
    /\ started = FALSE
    /\ smBusy = FALSE
    /\ deferralQueue = <<>>
    /\ policy \in {"rethrow", "ignore"}
    /\ stack = <<>>
    /\ exc = NoExc
    /\ call = "none"
    /\ trace = <<>>

\* the driver calls engine.start()
CallStart ==
    /\ stack = <<>> /\ call = "none"
    /\ ~heap[currState].inited => heap[currState].nEntry < MaxEntry
    /\ call' = "start"
    /\ stack' = <<Frame("start", "begin")>>
    /\ UNCHANGED <<heap, currState, started, smBusy, deferralQueue, policy, exc, trace>>

\* a driver calls the public method processDeferralQueue()
CallProcessDeferralQueue ==
    /\ stack = <<>> /\ call = "none"
    /\ call' = "processDeferralQueue"
    /\ stack' = <<Frame("caller", "drain")>>
    /\ UNCHANGED <<heap, currState, started, smBusy, deferralQueue, policy, exc, trace>>

\* a driver calls s.react(e, d) on a State object of the host: react is a
\* public method of the exported classes State and SubState.  The driver
\* holds the object the engine is on (the one it passed to the constructor,
\* or the public field currState)
CallReact(s, e, d) ==
    /\ stack = <<>> /\ call = "none"
    /\ call' = "react"
    /\ stack' = <<[EventFrame("react", "react", e, d) EXCEPT !.st = s]>>
    /\ UNCHANGED <<heap, currState, started, smBusy, deferralQueue, policy, exc, trace>>

\* some state of the host answers e with deferralTransition
Deferrable(e) == \E c \in Classes \cup GameClasses \cup HookClasses : Ret("deferralTransition") \in on(c, e)

\* the driver calls engine.handleEvent(e, d)
CallHandleEvent(e, d) ==
    /\ stack = <<>> /\ call = "none"
    /\ Deferrable(e) => Len(deferralQueue) < MaxQueue
    /\ call' = "handleEvent"
    /\ stack' = <<EventFrame("handleEvent", "check", e, d)>>
    /\ UNCHANGED <<heap, currState, started, smBusy, deferralQueue, policy, exc, trace>>

\* the call returns to the driver, normally or with the exception in flight
Return ==
    /\ stack = <<>> /\ call # "none"
    /\ call' = "none"
    /\ exc' = NoExc
    /\ trace' = <<>>
    /\ deferralQueue' = Renumbered(deferralQueue)
    /\ UNCHANGED <<heap, currState, started, smBusy, policy, stack>>

\* ------------------------------------------------------- FSM.handleEvent
\* variant: the reentrancy guard also covers the lifecycle hooks
handleEvent_GuardsHooks ==
    /\ Running /\ Top.fn = "handleEvent"
    /\ LET ready == IF Len(stack) >= 2 /\ stack[Len(stack) - 1].fn = "hook"
                    THEN "RecursiveEvent"
                    ELSE checkIfFSMReadyToHandleEvt
       IN  IF ready # "none"
           THEN /\ exc' = Raise(ready)
                /\ stack' = Pop
                /\ UNCHANGED smBusy
           ELSE /\ smBusy' = TRUE
                /\ stack' = SetTop([Top EXCEPT !.fn = "processSingleEvent", !.pc = "react"])
                /\ UNCHANGED exc
    /\ UNCHANGED <<heap, currState, started, deferralQueue, policy, call, trace>>

\* checkIfFSMReadyToHandleEvt(), then processSingleEvent up to smBusy = true
handleEvent ==
    /\ Running /\ Top.fn = "handleEvent"
    /\ LET ready == checkIfFSMReadyToHandleEvt
       IN  IF ready # "none"
           THEN /\ exc' = Raise(ready)
                /\ stack' = Pop
                /\ UNCHANGED smBusy
           ELSE /\ smBusy' = TRUE
                /\ stack' = SetTop([Top EXCEPT !.fn = "processSingleEvent", !.pc = "react"])
                /\ UNCHANGED exc
    /\ UNCHANGED <<heap, currState, started, deferralQueue, policy, call, trace>>

\* ------------------------------------------ FSM.processSingleEvent: react
MarkInited(visited) ==
    [i \in 1..Len(heap) |-> IF i \in visited THEN [heap[i] EXCEPT !.inited = TRUE] ELSE heap[i]]

\* this.currState.react(evtName, evtData) up to the call of the handler
processSingleEvent_react ==
    /\ Running /\ Top.fn = "processSingleEvent" /\ Top.pc = "react"
    /\ LET r == react(currState, Top.evt)
       IN  /\ heap' = MarkInited(r.visited)
           /\ IF r.found
              THEN /\ stack' = Append(SetTop([Top EXCEPT !.pc = "reacting"]),
                                      [EventFrame("handler", "body", Top.evt, Top.data)
                                           EXCEPT !.st = r.owner])
                   /\ trace' = Log("handler", r.owner, Top.evt, 0)
                   /\ UNCHANGED exc
              ELSE /\ stack' = SetTop([Top EXCEPT !.pc = "reacting"])
                   /\ exc' = UnhandledEvtException(r.owner, Top.evt)
                   /\ UNCHANGED trace
    /\ UNCHANGED <<currState, started, smBusy, deferralQueue, policy, call>>

\* s.react(evtName, evtData) called by a driver, up to the call of the
\* handler: the lookup, with bubbling, sets inited on the objects it visits
\* and throws UnhandledEvtException to the driver when it fails
State_react ==
    /\ Running /\ Top.fn = "react" /\ Top.pc = "react"
    /\ LET r == react(Top.st, Top.evt)
       IN  /\ heap' = MarkInited(r.visited)
           /\ IF r.found
              THEN /\ stack' = Append(SetTop([Top EXCEPT !.pc = "reacting"]),
                                      [EventFrame("handler", "body", Top.evt, Top.data)
                                           EXCEPT !.st = r.owner])
                   /\ trace' = Log("handler", r.owner, Top.evt, 0)
                   /\ UNCHANGED exc
              ELSE /\ stack' = Pop
                   /\ exc' = UnhandledEvtException(r.owner, Top.evt)
                   /\ UNCHANGED trace
    /\ UNCHANGED <<currState, started, smBusy, deferralQueue, policy, call>>

\* react returns the validated value to the driver, which drops it: a State
\* object the handler has just constructed is referred to by nothing
State_react_return ==
    /\ Running /\ Top.fn = "react" /\ Top.pc = "apply"
    /\ stack' = Pop
    /\ heap' = IF Top.tr.k = "State" THEN SubSeq(heap, 1, Top.tr.inst - 1) ELSE heap
    /\ UNCHANGED <<currState, started, smBusy, deferralQueue, policy, exc, call, trace>>

\* react's validation passed: the caller of react has the value; in
\* processSingleEvent `finally` resets smBusy and the transition is about to
\* be applied
ReturnTransition(stk, v) ==
    [stk EXCEPT ![Len(stk)] = [@ EXCEPT !.tr = v, !.pc = "apply"]]

\* smBusy after react has returned to the frame on top of stk: the
\* `finally` of processSingleEvent resets it, a driver's call leaves it
BusyAfterReact(stk) ==
    IF stk[Len(stk)].fn = "processSingleEvent" THEN FALSE ELSE smBusy

\* the handler returns a transition value
HandlerReturn ==
    /\ Running /\ Top.fn = "handler" /\ Top.pc = "body"
    /\ \E o \in HandlerBody(Top.st, Top.evt) :
         \/ /\ o.k \in AcceptedByReact
            /\ stack' = ReturnTransition(Pop, Value(o.k))
            /\ UNCHANGED heap
         \/ /\ o.k = "new"
            /\ Len(heap) < MaxInst
            /\ heap' = Append(heap, NewObject(o.c, IF IsSubStateClass(o.c) THEN Top.st ELSE NoState))
            /\ stack' = ReturnTransition(Pop, StateValue(Len(heap) + 1))
    /\ smBusy' = BusyAfterReact(Pop)
    /\ UNCHANGED <<currState, started, deferralQueue, policy, exc, call, trace>>

\* the handler throws, or returns a value that react refuses: "improper" is
\* a value that is no State, not undefined or null, and not a string that
\* names a property of SpecialTransition (a number, say); a string that does
\* name one is returned by HandlerReturn
HandlerThrow ==
    /\ Running /\ Top.fn = "handler" /\ Top.pc = "body"
    /\ \E o \in HandlerBody(Top.st, Top.evt) :
         \/ /\ o.k = "improper"
            /\ exc' = ImproperReactionException(Top.st, Top.evt)
         \/ /\ o.k = "throw"
            /\ exc' = Raise("Error")
    /\ stack' = Pop
    /\ UNCHANGED <<heap, currState, started, smBusy, deferralQueue, policy, call, trace>>

\* the handler calls this.fsm.handleEvent(e) from its body
HandlerReenter ==
    /\ Running /\ Top.fn = "handler" /\ Top.pc = "body"
    /\ \E o \in HandlerBody(Top.st, Top.evt), e \in ReenterEvents :
         /\ o.k \in {"reenter", "reenterCatch"}
         /\ stack' = Append(SetTop([Top EXCEPT !.pc = o.k]),
                            EventFrame("handleEvent", "check", e, "null"))
    /\ UNCHANGED <<heap, currState, started, smBusy, deferralQueue, policy, exc, call, trace>>

\* the inner call is over: the handler lets its exception through, or
\* catches it and returns nullTransition
HandlerAfterCall ==
    /\ stack # <<>> /\ Top.fn = "handler" /\ Top.pc \in {"reenter", "reenterCatch"}
    /\ IF exc.kind # "none" /\ Top.pc = "reenter"
       THEN /\ stack' = Pop
            /\ UNCHANGED <<exc, smBusy>>
       ELSE /\ stack' = ReturnTransition(Pop, Value("nullTransition"))
            /\ exc' = NoExc
            /\ smBusy' = BusyAfterReact(Pop)
    /\ UNCHANGED <<heap, currState, started, deferralQueue, policy, call, trace>>

\* the activation of this.onUnconsumedEvt(exception): st and evt are the
\* state and the event the exception names
UnconsumedFrame(x) == [Frame("onUnconsumedEvt", "body") EXCEPT !.st = x.st, !.evt = x.evt]

\* the event an overriding onUnconsumedEvt submits to its own engine
UnconsumedEvent == "go"

\* variant: the hook swallows the exception whatever the engine
onUnconsumedEvt_Swallow ==
    /\ Running /\ Top.fn = "onUnconsumedEvt" /\ Top.pc = "body"
    /\ stack' = Pop
    /\ UNCHANGED <<heap, currState, started, smBusy, deferralQueue, policy, exc, call, trace>>

\* the body of onUnconsumedEvt: FSM.onUnconsumedEvt throws the exception it
\* was given; the override of GameEngineFSM calls logger.warn("Unconsumed
\* evt, ...") and returns ("ignore"); an
\* override can also call this.handleEvent(...) and catch what it throws
\* ("reenter")
onUnconsumedEvt ==
    /\ Running /\ Top.fn = "onUnconsumedEvt" /\ Top.pc = "body"
    /\ CASE policy = "rethrow" ->
              /\ exc' = UnhandledEvtException(Top.st, Top.evt)
              /\ stack' = Pop
              /\ UNCHANGED trace
         [] policy = "ignore" ->
              /\ trace' = Log("warn", NoState, "Unconsumed evt", 0)
              /\ stack' = Pop
              /\ UNCHANGED exc
         [] policy = "reenter" ->
              /\ stack' = Append(SetTop([Top EXCEPT !.pc = "called"]),
                                 EventFrame("handleEvent", "check", UnconsumedEvent, "null"))
              /\ UNCHANGED <<exc, trace>>
    /\ UNCHANGED <<heap, currState, started, smBusy, deferralQueue, policy, call>>

\* the call the override made is over: it catches the exception of the
\* call, if any, and returns
onUnconsumedEvt_afterCall ==
    /\ stack # <<>> /\ Top.fn = "onUnconsumedEvt" /\ Top.pc = "called"
    /\ exc' = NoExc
    /\ stack' = Pop
    /\ UNCHANGED <<heap, currState, started, smBusy, deferralQueue, policy, call, trace>>

\* variant: smBusy is reset after react() instead of in a finally block, so
\* an exception that leaves processSingleEvent leaves it set
processSingleEvent_finally_NoFinally ==
    /\ stack # <<>> /\ Top.fn = "processSingleEvent" /\ Top.pc = "finally"
    /\ IF exc.kind # "none"
       THEN stack' = Pop /\ UNCHANGED smBusy
       ELSE stack' = SetTop([Top EXCEPT !.pc = "apply"]) /\ smBusy' = FALSE
    /\ UNCHANGED <<heap, currState, started, deferralQueue, policy, exc, call, trace>>

\* `finally { this.smBusy = false }` after onUnconsumedEvt has returned or
\* thrown: the exception goes on to the caller of processSingleEvent, or
\* processSingleEvent goes on with `transition` undefined
processSingleEvent_finally ==
    /\ stack # <<>> /\ Top.fn = "processSingleEvent" /\ Top.pc = "finally"
    /\ smBusy' = FALSE
    /\ IF exc.kind # "none"
       THEN stack' = Pop
       ELSE stack' = SetTop([Top EXCEPT !.pc = "apply"])
    /\ UNCHANGED <<heap, currState, started, deferralQueue, policy, exc, call, trace>>

\* the catch block of processSingleEvent around react: an
\* UnhandledEvtException is passed to this.onUnconsumedEvt, with smBusy
\* still set; any other exception is thrown again and leaves
\* processSingleEvent through `finally { this.smBusy = false }`
processSingleEvent_catch ==
    /\ Throwing /\ Top.fn = "processSingleEvent" /\ Top.pc = "reacting"
    /\ IF exc.kind = "UnhandledEvtException"
       THEN /\ trace' = Log("onUnconsumedEvt", exc.st, exc.evt, 0)
            /\ stack' = Append(SetTop([Top EXCEPT !.pc = "finally"]), UnconsumedFrame(exc))
            /\ exc' = NoExc
            /\ UNCHANGED smBusy
       ELSE /\ stack' = Pop
            /\ smBusy' = FALSE
            /\ UNCHANGED <<exc, trace>>
    /\ UNCHANGED <<heap, currState, started, deferralQueue, policy, call>>

\* ----------------------------- FSM.processSingleEvent: apply the transition
Applying == Running /\ Top.fn = "processSingleEvent" /\ Top.pc = "apply"

CountEntry(s) == [heap EXCEPT ![s].nEntry = @ + 1]

CountExit(s) == [heap EXCEPT ![s].nExit = @ + 1]

\* handleStateEntry(s) after logger.info(...) and s.onEntry()
EntryFrame(s) == [Frame("handleStateEntry", "launch") EXCEPT !.st = s]

\* variant: a dispatch that changes nothing still ends in a drain
ApplyNull_Drains ==
    /\ Applying /\ Top.tr.k \in {"undefined", "nullTransition", "toString"}
    /\ stack' = SetTop([Top EXCEPT !.pc = "drain"])
    /\ UNCHANGED <<heap, currState, started, smBusy, deferralQueue, policy, exc, call, trace>>

\* nullTransition, null, undefined, or a string that is none of the
\* transition values: no branch of processSingleEvent is taken
ApplyNull ==
    /\ Applying /\ Top.tr.k \in {"undefined", "nullTransition", "toString"}
    /\ stack' = Pop
    /\ UNCHANGED <<heap, currState, started, smBusy, deferralQueue, policy, exc, call, trace>>

\* variant: the entry is put at the front of the queue
Enqueue_AtFront(q, entry) == <<entry>> \o q

\* Array.push on the deferral queue
Enqueue(q, entry) == Append(q, entry)

\* variant: the array the running pass iterates is still the queue, so the
\* push lands in what the pass has to visit
ApplyDeferral_Aliased ==
    /\ Applying /\ Top.tr.k = "deferralTransition"
    /\ deferralQueue' = Enqueue(deferralQueue, [evt |-> Top.evt, data |-> Top.data, id |-> NextId])
    /\ trace' = Log("push", currState, Top.evt, Top.data)
    /\ stack' = IF Len(stack) >= 2 /\ stack[Len(stack) - 1].fn = "processDeferralQueue"
                THEN [Pop EXCEPT ![Len(stack) - 1].local =
                        Enqueue(@, [evt |-> Top.evt, data |-> Top.data, id |-> NextId])]
                ELSE Pop
    /\ UNCHANGED <<heap, currState, started, smBusy, policy, exc, call>>

\* variant: the entry keeps the name of the event but not its payload
ApplyDeferral_NoPayload ==
    /\ Applying /\ Top.tr.k = "deferralTransition"
    /\ deferralQueue' = Enqueue(deferralQueue, [evt |-> Top.evt, data |-> "null", id |-> NextId])
    /\ trace' = Log("push", currState, Top.evt, Top.data)
    /\ stack' = Pop
    /\ UNCHANGED <<heap, currState, started, smBusy, policy, exc, call>>

\* variant: the deferral branch ends in a drain, as the other branches do
ApplyDeferral_Drains ==
    /\ Applying /\ Top.tr.k = "deferralTransition"
    /\ deferralQueue' = Enqueue(deferralQueue, [evt |-> Top.evt, data |-> Top.data, id |-> NextId])
    /\ trace' = Log("push", currState, Top.evt, Top.data)
    /\ stack' = SetTop([Top EXCEPT !.pc = "drain"])
    /\ UNCHANGED <<heap, currState, started, smBusy, policy, exc, call>>

\* this.deferralQueue.push([evtName, evtData])
ApplyDeferral ==
    /\ Applying /\ Top.tr.k = "deferralTransition"
    /\ deferralQueue' = Enqueue(deferralQueue, [evt |-> Top.evt, data |-> Top.data, id |-> NextId])
    /\ trace' = Log("push", currState, Top.evt, Top.data)
    /\ stack' = Pop
    /\ UNCHANGED <<heap, currState, started, smBusy, policy, exc, call>>

\* transition instanceof SubState: this.currState.onPreemption()
ApplySubState ==
    /\ Applying /\ Top.tr.k = "State" /\ IsSubState(Top.tr.inst)
    /\ trace' = Log("onPreemption", currState, "-", 0)
    /\ stack' = CallHook(SetTop([Top EXCEPT !.pc = "enter"]), currState, "onPreemption")
    /\ UNCHANGED <<heap, currState, started, smBusy, deferralQueue, policy, exc, call>>

\* the payload a SubState hands back (stands for whatever the subclass returns)
getReturnPayload(s) == s

\* variant: the instanceof check is missing
ApplyReturnToParent_NoCheck ==
    /\ Applying /\ Top.tr.k = "ReturnToParent"
    /\ trace' = Log("getReturnPayload", currState, "-", getReturnPayload(currState))
    /\ stack' = SetTop([Top EXCEPT !.payload = getReturnPayload(currState),
                                   !.pc = "beforeExit"])
    /\ UNCHANGED <<heap, currState, started, smBusy, deferralQueue, policy, exc, call>>

\* ReturnToParent: the instanceof check, then this.currState.getReturnPayload()
ApplyReturnToParent ==
    /\ Applying /\ Top.tr.k = "ReturnToParent"
    /\ IF ~IsSubState(currState)
       THEN /\ exc' = Raise("AFSMError")
            /\ stack' = Pop
            /\ UNCHANGED trace
       ELSE /\ trace' = Log("getReturnPayload", currState, "-", getReturnPayload(currState))
            /\ stack' = CallHook(SetTop([Top EXCEPT !.payload = getReturnPayload(currState),
                                                    !.pc = "beforeExit"]),
                                 currState, "getReturnPayload")
            /\ UNCHANGED exc
    /\ UNCHANGED <<heap, currState, started, smBusy, deferralQueue, policy, call>>

\* ReturnToParent: this.currState.beforeExit()
ReturnToParent_beforeExit ==
    /\ Running /\ Top.fn = "processSingleEvent" /\ Top.pc = "beforeExit"
    /\ trace' = Log("beforeExit", currState, "-", 0)
    /\ heap' = CountExit(currState)
    /\ stack' = CallHook(SetTop([Top EXCEPT !.pc = "resume"]), currState, "beforeExit")
    /\ UNCHANGED <<currState, started, smBusy, deferralQueue, policy, exc, call>>

\* variant: the parent is entered again instead of resumed
ReturnToParent_resume_Reentry ==
    /\ Running /\ Top.fn = "processSingleEvent" /\ Top.pc = "resume"
    /\ currState' = heap[currState].parent
    /\ trace' = Log2("info", "onEntry", heap[currState].parent)
    /\ heap' = CountEntry(heap[currState].parent)
    /\ stack' = SetTop(EntryFrame(heap[currState].parent))
    /\ UNCHANGED <<started, smBusy, deferralQueue, policy, exc, call>>

\* variant: the payload is asked for after the active state was switched
ReturnToParent_resume_LatePayload ==
    /\ Running /\ Top.fn = "processSingleEvent" /\ Top.pc = "resume"
    /\ currState' = heap[currState].parent
    /\ trace' = Log("onResumeFromSubstate", heap[currState].parent, "-",
                    getReturnPayload(heap[currState].parent))
    /\ stack' = SetTop([Top EXCEPT !.pc = "drain"])
    /\ UNCHANGED <<heap, started, smBusy, deferralQueue, policy, exc, call>>

\* variant: control goes back to the root of the chain, not to the direct parent
ReturnToParent_resume_ToRoot ==
    /\ Running /\ Top.fn = "processSingleEvent" /\ Top.pc = "resume"
    /\ currState' = Chain(currState)[Len(Chain(currState))]
    /\ trace' = Log("onResumeFromSubstate", Chain(currState)[Len(Chain(currState))], "-", Top.payload)
    /\ stack' = SetTop([Top EXCEPT !.pc = "drain"])
    /\ UNCHANGED <<heap, started, smBusy, deferralQueue, policy, exc, call>>

\* ReturnToParent: currState = currState.parent; currState.onResumeFromSubstate(payload)
ReturnToParent_resume ==
    /\ Running /\ Top.fn = "processSingleEvent" /\ Top.pc = "resume"
    /\ currState' = heap[currState].parent
    /\ trace' = Log("onResumeFromSubstate", heap[currState].parent, "-", Top.payload)
    /\ stack' = CallHook(SetTop([Top EXCEPT !.pc = "drain"]),
                         heap[currState].parent, "onResumeFromSubstate")
    /\ UNCHANGED <<heap, started, smBusy, deferralQueue, policy, exc, call>>

\* variant: beforeExit on the active state only, no walk up the chain
exitStateChain_LeafOnly ==
    /\ Running /\ Top.fn = "processSingleEvent"
    /\ Top.pc = "apply" /\ Top.tr.k = "State" /\ ~IsSubState(Top.tr.inst)
    /\ trace' = Log("beforeExit", currState, "-", 0)
    /\ heap' = CountExit(currState)
    /\ stack' = SetTop([Top EXCEPT !.pc = "enter"])
    /\ UNCHANGED <<currState, started, smBusy, deferralQueue, policy, exc, call>>

\* the state exitStateChain is about to call beforeExit on
ExitCursor == IF Top.pc = "apply" THEN currState ELSE Top.st

\* transition instanceof State: one call of exitStateChain(state), which
\* calls state.beforeExit() and recurses into state.parent of a SubState
exitStateChain ==
    /\ Running /\ Top.fn = "processSingleEvent"
    /\ \/ Top.pc = "apply" /\ Top.tr.k = "State" /\ ~IsSubState(Top.tr.inst)
       \/ Top.pc = "exitStateChain"
    /\ trace' = Log("beforeExit", ExitCursor, "-", 0)
    /\ heap' = CountExit(ExitCursor)
    /\ stack' = CallHook(SetTop(IF IsSubState(ExitCursor)
                                THEN [Top EXCEPT !.pc = "exitStateChain",
                                                 !.st = heap[ExitCursor].parent]
                                ELSE [Top EXCEPT !.pc = "enter"]),
                         ExitCursor, "beforeExit")
    /\ UNCHANGED <<currState, started, smBusy, deferralQueue, policy, exc, call>>

\* this.currState = transition; this.handleStateEntry(this.currState)
EnterState ==
    /\ Running /\ Top.fn = "processSingleEvent" /\ Top.pc = "enter"
    /\ currState' = Top.tr.inst
    /\ trace' = Log2("info", "onEntry", Top.tr.inst)
    /\ heap' = CountEntry(Top.tr.inst)
    /\ stack' = CallHook(SetTop(EntryFrame(Top.tr.inst)), Top.tr.inst, "onEntry")
    /\ UNCHANGED <<started, smBusy, deferralQueue, policy, exc, call>>

\* variant: the entry sequence goes from onEntry() straight to the drain
handleStateEntry_launch_Skipped ==
    /\ Running /\ Top.fn = "handleStateEntry" /\ Top.pc = "launch"
    /\ stack' = SetTop([Top EXCEPT !.pc = "drain"])
    /\ UNCHANGED <<heap, currState, started, smBusy, deferralQueue, policy, exc, call, trace>>

\* handleStateEntry: this.handleEvent("launch")
handleStateEntry_launch ==
    /\ Running /\ Top.fn = "handleStateEntry" /\ Top.pc = "launch"
    /\ stack' = Append(SetTop([Top EXCEPT !.pc = "drain"]),
                       EventFrame("handleEvent", "check", "launch", "null"))
    /\ UNCHANGED <<heap, currState, started, smBusy, deferralQueue, policy, exc, call, trace>>

\* ------------------------------------------------ FSM.processDeferralQueue
\* variant: the queue is not cleared when the snapshot is taken
processDeferralQueue_NoClear ==
    /\ Running /\ Top.fn \in {"handleStateEntry", "processSingleEvent", "caller"} /\ Top.pc = "drain"
    /\ IF deferralQueue = <<>>
       THEN stack' = Pop
       ELSE stack' = SetTop([Frame("processDeferralQueue", "loop")
                                EXCEPT !.local = deferralQueue, !.snap = deferralQueue,
                                       !.t0 = Len(trace)])
    /\ UNCHANGED <<heap, currState, started, smBusy, deferralQueue, policy, exc, call, trace>>

\* variant: one flat pass, a call made while a pass is running returns at once
processDeferralQueue_NoNested ==
    /\ Running /\ Top.fn \in {"handleStateEntry", "processSingleEvent", "caller"} /\ Top.pc = "drain"
    /\ IF deferralQueue = <<>> \/ \E i \in 1..Len(stack) : stack[i].fn = "processDeferralQueue"
       THEN /\ stack' = Pop
            /\ UNCHANGED deferralQueue
       ELSE /\ stack' = SetTop([Frame("processDeferralQueue", "loop")
                                   EXCEPT !.local = deferralQueue, !.snap = deferralQueue,
                                          !.t0 = Len(trace)])
            /\ deferralQueue' = <<>>
    /\ UNCHANGED <<heap, currState, started, smBusy, policy, exc, call, trace>>

\* the call that ends handleStateEntry and the ReturnToParent branch, or the
\* call of a driver: return on an empty queue, else local = deferralQueue;
\* deferralQueue = []
processDeferralQueue ==
    /\ Running /\ Top.fn \in {"handleStateEntry", "processSingleEvent", "caller"} /\ Top.pc = "drain"
    /\ IF deferralQueue = <<>>
       THEN /\ stack' = Pop
            /\ UNCHANGED trace
       ELSE /\ stack' = SetTop([Frame("processDeferralQueue", "loop")
                                   EXCEPT !.local = deferralQueue, !.snap = deferralQueue,
                                          !.t0 = Len(trace) + 1])
            /\ trace' = Log("take", NoState, "-", Len(deferralQueue))
    /\ deferralQueue' = <<>>
    /\ UNCHANGED <<heap, currState, started, smBusy, policy, exc, call>>

\* variant: the loop walks the snapshot from its last entry
TakeDeferred_Backwards(local) ==
    [item |-> local[Len(local)], rest |-> SubSeq(local, 1, Len(local) - 1)]

\* variant: taking an entry also discards the one behind it
TakeDeferred_DropsNext(local) ==
    [item |-> Head(local),
     rest |-> IF Len(local) >= 2 THEN Tail(Tail(local)) ELSE <<>>]

\* `for (const [evtName, evtData] of local)`: the entry the loop takes next
\* and the entries it has still to visit
TakeDeferred(local) == [item |-> Head(local), rest |-> Tail(local)]

\* one iteration of `for (... of local)`: the readiness check inside the try,
\* then processSingleEvent up to smBusy = true; the loop ends on an empty rest
processDeferralQueue_next ==
    /\ Running /\ Top.fn = "processDeferralQueue"
    /\ IF Top.local = <<>>
       THEN /\ stack' = Pop
            /\ UNCHANGED <<smBusy, trace>>
       ELSE LET item  == TakeDeferred(Top.local).item
                ready == checkIfFSMReadyToHandleEvt
                loop  == [Top EXCEPT !.local = TakeDeferred(Top.local).rest, !.cur = item.id]
            IN  IF ready # "none"
                THEN /\ trace' = Log("warn", NoState, ready, 0)
                     /\ stack' = SetTop([loop EXCEPT !.cur = 0])
                     /\ UNCHANGED smBusy
                ELSE /\ smBusy' = TRUE
                     /\ stack' = Append(SetTop(loop),
                                        EventFrame("processSingleEvent", "react", item.evt, item.data))
                     /\ UNCHANGED trace
    /\ UNCHANGED <<heap, currState, started, deferralQueue, policy, exc, call>>

\* variant: the error is logged and thrown again, which ends the pass
processDeferralQueue_catch_Rethrow ==
    /\ Throwing /\ Top.fn = "processDeferralQueue"
    /\ trace' = Log("warn", NoState, exc.kind, 0)
    /\ stack' = Pop
    /\ UNCHANGED <<heap, currState, started, smBusy, deferralQueue, policy, exc, call>>

\* catch (err) { this.logger.warn(...) } around one replay
processDeferralQueue_catch ==
    /\ Throwing /\ Top.fn = "processDeferralQueue"
    /\ exc' = NoExc
    /\ trace' = Log("warn", NoState, exc.kind, 0)
    /\ UNCHANGED <<heap, currState, started, smBusy, deferralQueue, policy, stack, call>>

\* ------------------------------------------------------------- FSM.start
\* variant: start() does not test final()
start_NoFinalTest ==
    /\ Running /\ Top.fn = "start"
    /\ started' = TRUE
    /\ IF ~heap[currState].inited
       THEN /\ trace' = Log2("info", "onEntry", currState)
            /\ heap' = CountEntry(currState)
            /\ stack' = SetTop(EntryFrame(currState))
       ELSE /\ stack' = Pop
            /\ UNCHANGED <<heap, trace>>
    /\ UNCHANGED <<currState, smBusy, deferralQueue, policy, exc, call>>

\* variant: the flag is set after the final() check has passed
start_FlagAfterCheck ==
    /\ Running /\ Top.fn = "start"
    /\ IF final(currState)
       THEN /\ exc' = Raise("FinalityReachedException")
            /\ stack' = Pop
            /\ UNCHANGED <<heap, trace, started>>
       ELSE IF ~heap[currState].inited
       THEN /\ started' = TRUE
            /\ trace' = Log2("info", "onEntry", currState)
            /\ heap' = CountEntry(currState)
            /\ stack' = SetTop(EntryFrame(currState))
            /\ UNCHANGED exc
       ELSE /\ started' = TRUE
            /\ stack' = Pop
            /\ UNCHANGED <<heap, exc, trace>>
    /\ UNCHANGED <<currState, smBusy, deferralQueue, policy, call>>

start ==
    /\ Running /\ Top.fn = "start"
    /\ started' = TRUE
    /\ IF final(currState)
       THEN /\ exc' = Raise("FinalityReachedException")
            /\ stack' = Pop
            /\ UNCHANGED <<heap, trace>>
       ELSE IF ~heap[currState].inited
       THEN /\ trace' = Log2("info", "onEntry", currState)
            /\ heap' = CountEntry(currState)
            /\ stack' = CallHook(SetTop(EntryFrame(currState)), currState, "onEntry")
            /\ UNCHANGED exc
       ELSE /\ stack' = Pop
            /\ UNCHANGED <<heap, exc, trace>>
    /\ UNCHANGED <<currState, smBusy, deferralQueue, policy, call>>

\* variant: handleStateEntry swallows the error of its launch call and goes
\* on to the drain
Propagate_EntryCatches ==
    /\ Throwing
    /\ \/ Top.fn \in {"handleStateEntry", "start", "handleEvent", "react"}
       \/ Top.fn = "processSingleEvent" /\ Top.pc \notin {"reacting", "finally"}
    /\ IF Top.fn = "handleStateEntry"
       THEN exc' = NoExc /\ stack' = stack
       ELSE exc' = exc /\ stack' = Pop
    /\ UNCHANGED <<heap, currState, started, smBusy, deferralQueue, policy, call, trace>>

\* variant: handleStateEntry goes on to the launch event when onEntry has
\* failed
Propagate_EntryGoesOn ==
    /\ Throwing
    /\ \/ Top.fn \in {"handleStateEntry", "start", "handleEvent", "react"}
       \/ Top.fn = "processSingleEvent" /\ Top.pc \notin {"reacting", "finally"}
    /\ IF Top.fn = "handleStateEntry" /\ Top.pc = "launch"
       THEN exc' = NoExc /\ stack' = stack
       ELSE exc' = exc /\ stack' = Pop
    /\ UNCHANGED <<heap, currState, started, smBusy, deferralQueue, policy, call, trace>>

\* an exception passes through a frame that has no handler for it
Propagate ==
    /\ Throwing
    /\ \/ Top.fn \in {"handleStateEntry", "start", "handleEvent", "react"}
       \/ Top.fn = "processSingleEvent" /\ Top.pc \notin {"reacting", "finally"}
    /\ stack' = Pop
    /\ UNCHANGED <<heap, currState, started, smBusy, deferralQueue, policy, exc, call, trace>>

Next ==
    \/ CallStart
    \/ CallProcessDeferralQueue
    \/ \E e \in Events : \E d \in Payloads(e) : CallHandleEvent(e, d)
    \/ \E e \in Events : \E d \in Payloads(e) : CallReact(currState, e, d)
    \/ Return
    \/ handleEvent
    \/ processSingleEvent_react
    \/ State_react
    \/ State_react_return
    \/ HandlerReturn
    \/ HandlerThrow
    \/ HandlerReenter
    \/ HandlerAfterCall
    \/ processSingleEvent_catch
    \/ onUnconsumedEvt
    \/ processSingleEvent_finally
    \/ ApplyNull
    \/ ApplyDeferral
    \/ ApplySubState
    \/ ApplyReturnToParent
    \/ ReturnToParent_beforeExit
    \/ ReturnToParent_resume
    \/ exitStateChain
    \/ EnterState
    \/ handleStateEntry_launch
    \/ processDeferralQueue
    \/ processDeferralQueue_next
    \/ processDeferralQueue_catch
    \/ start
    \/ Propagate

Spec == Init /\ [][Next]_vars

\* ------------------------------------------------------- GameEngineFSM
\* new GameEngineFSM(...): the initial state is a PreStart and
\* onUnconsumedEvt is overridden to log the exception and return
GameInit ==
    /\ heap = <<NewObject("PreStart", NoState)>>
    /\ currState = 1
    /\ started = FALSE
    /\ smBusy = FALSE
    /\ deferralQueue = <<>>
    /\ policy = "ignore"
    /\ stack = <<>>
    /\ exc = NoExc
    /\ call = "none"
    /\ trace = <<>>

\* the engine driven by the GUI and the timers; no handler of the game
\* throws, returns an improper value or calls the engine synchronously
GameNext ==
    \/ CallStart
    \/ CallProcessDeferralQueue
    \/ \E e \in GameEvents : \E d \in Payloads(e) : CallHandleEvent(e, d)
    \/ \E e \in GameEvents : \E d \in Payloads(e) : CallReact(currState, e, d)
    \/ Return
    \/ handleEvent
    \/ processSingleEvent_react
    \/ State_react
    \/ State_react_return
    \/ HandlerReturn
    \/ processSingleEvent_catch
    \/ onUnconsumedEvt
    \/ processSingleEvent_finally
    \/ ApplyNull
    \/ ApplyDeferral
    \/ ApplySubState
    \/ ApplyReturnToParent
    \/ ReturnToParent_beforeExit
    \/ ReturnToParent_resume
    \/ exitStateChain
    \/ EnterState
    \/ handleStateEntry_launch
    \/ processDeferralQueue
    \/ processDeferralQueue_next
    \/ start

GameSpec == GameInit /\ [][GameNext]_vars

\* ----------------------------------------------- hooks that do something
AtHook == stack # <<>> /\ Top.fn = "hook"

\* the hook returns
HookReturn ==
    /\ Running /\ AtHook /\ Top.pc = "body"
    /\ "return" \in HookBody(heap[Top.st].cls, Top.evt)
    /\ stack' = Pop
    /\ UNCHANGED <<heap, currState, started, smBusy, deferralQueue, policy, exc, call, trace>>

\* the hook throws
HookThrow ==
    /\ Running /\ AtHook /\ Top.pc = "body"
    /\ "throw" \in HookBody(heap[Top.st].cls, Top.evt)
    /\ exc' = Raise("Error")
    /\ stack' = Pop
    /\ UNCHANGED <<heap, currState, started, smBusy, deferralQueue, policy, call, trace>>

\* the hook calls this.fsm.handleEvent(e) on the engine that is calling it
HookReenter ==
    /\ Running /\ AtHook /\ Top.pc = "body"
    /\ "reenter" \in HookBody(heap[Top.st].cls, Top.evt)
    /\ stack' = Append(SetTop([Top EXCEPT !.pc = "called"]),
                       EventFrame("handleEvent", "check",
                                  HookEvent(heap[Top.st].cls, Top.evt), "null"))
    /\ UNCHANGED <<heap, currState, started, smBusy, deferralQueue, policy, exc, call, trace>>

\* the call the hook made is over: the hook returns, or the exception of
\* the call leaves the hook
HookAfterCall ==
    /\ AtHook /\ Top.pc = "called"
    /\ stack' = Pop
    /\ UNCHANGED <<heap, currState, started, smBusy, deferralQueue, policy, exc, call, trace>>

\* new FSM(() => new Home(), logger), or an engine of a subclass of FSM whose
\* onUnconsumedEvt calls handleEvent
HookInit ==
    /\ heap = <<NewObject("Home", NoState)>>
    /\ currState = 1
    /\ started = FALSE
    /\ smBusy = FALSE
    /\ deferralQueue = <<>>
    /\ policy \in {"rethrow", "reenter"}
    /\ stack = <<>>
    /\ exc = NoExc
    /\ call = "none"
    /\ trace = <<>>

HookNext ==
    \/ CallStart
    \/ CallProcessDeferralQueue
    \/ \E e \in HookEvents : \E d \in Payloads(e) : CallHandleEvent(e, d)
    \/ \E e \in HookEvents : \E d \in Payloads(e) : CallReact(currState, e, d)
    \/ Return
    \/ handleEvent
    \/ processSingleEvent_react
    \/ State_react
    \/ State_react_return
    \/ HandlerReturn
    \/ processSingleEvent_catch
    \/ onUnconsumedEvt
    \/ processSingleEvent_finally
    \/ ApplyNull
    \/ ApplyDeferral
    \/ ApplySubState
    \/ ApplyReturnToParent
    \/ ReturnToParent_beforeExit
    \/ ReturnToParent_resume
    \/ exitStateChain
    \/ EnterState
    \/ handleStateEntry_launch
    \/ processDeferralQueue
    \/ processDeferralQueue_next
    \/ processDeferralQueue_catch
    \/ start
    \/ Propagate
    \/ HookReturn
    \/ HookThrow
    \/ HookReenter
    \/ HookAfterCall
    \/ onUnconsumedEvt_afterCall

HookSpec == HookInit /\ [][HookNext]_vars

\* ======================================================== properties
\* a handleEvent call is about to run its readiness check
AtHandleEvent == Running /\ Top.fn = "handleEvent"

\* the engine state a rejected call must leave alone
Rejected(kind) ==
    /\ exc' = Raise(kind)
    /\ stack' = Pop
    /\ trace' = trace
    /\ UNCHANGED <<heap, currState, started, smBusy, deferralQueue>>

\* the activation i of the stack is a handler that react called for a
\* dispatch of the engine
EngineHandler(i) == i >= 2 /\ stack[i].fn = "handler" /\ stack[i - 1].fn = "processSingleEvent"

\* the activation i of the stack is a handler that react called for a driver
DriverHandler(i) == i >= 2 /\ stack[i].fn = "handler" /\ stack[i - 1].fn = "react"

\* a react call of a driver is at a step of its own: the lookup, the body
\* of the handler, the return of the value
InDirectReact == stack # <<>> /\ (Top.fn = "react" \/ DriverHandler(Len(stack)))

\* the call was made from the body of a handler
HandlerCall == AtHandleEvent /\ Len(stack) >= 2 /\ stack[Len(stack) - 1].fn = "handler"

\* the call was made from the body of a handler that runs inside a dispatch
InnerCall == HandlerCall /\ EngineHandler(Len(stack) - 1)

\* C1: a handleEvent call made by a handler on its own engine, the handler
\* running inside react with smBusy set, raises RecursiveEvent before any
\* handler or hook runs and leaves the active state, the deferral queue and
\* the started flag unchanged; smBusy is set in every handler that runs in
\* a dispatch.
C1_ReentrancyRejected ==
    /\ [][InnerCall => smBusy /\ Rejected("RecursiveEventException")]_vars
    /\ [][HandlerCall /\ smBusy => Rejected("RecursiveEventException")]_vars
    /\ [](\A i \in 1..Len(stack) : EngineHandler(i) => smBusy)

\* a handler that a driver called through react, outside any dispatch, has
\* called handleEvent: smBusy is not set and the call is dispatched
C1_OutsideDispatch ==
    /\ HandlerCall /\ DriverHandler(Len(stack) - 1)
    /\ ~smBusy /\ checkIfFSMReadyToHandleEvt = "none"

\* the inner call of a handler has just raised RecursiveEvent
C1_Witness ==
    /\ stack # <<>> /\ Top.fn = "handler" /\ Top.pc \in {"reenter", "reenterCatch"}
    /\ exc.kind = "RecursiveEventException"
    /\ smBusy

\* no frame of the stack runs a handler of a final state
NoHandlerOfFinal ==
    \A i \in 1..Len(stack) : EngineHandler(i) => ~final(stack[i].st)

\* C2: once the engine is started and the active state is final, every
\* handleEvent raises FinalityReached, whatever the event, and no handler of
\* the final state (on_launch included) is invoked.
C2_FinalStateGuard ==
    /\ [](started /\ final(currState) => NoHandlerOfFinal)
    /\ [][AtHandleEvent /\ started /\ final(currState)
            => Rejected("FinalityReachedException")]_vars

\* a driver's handleEvent came back with FinalityReached from a final state
\* that a transition made active
C2_Witness ==
    /\ call = "handleEvent" /\ stack = <<>>
    /\ exc.kind = "FinalityReachedException"
    /\ started /\ final(currState) /\ currState # 1
    /\ trace = <<>>

\* C3: handleEvent on an engine that was never started raises SMInactive,
\* invokes no handler and no hook, and leaves the active state and the
\* deferral queue unchanged.
C3_InactiveRejected ==
    [][AtHandleEvent /\ ~started => Rejected("SMInactiveException")]_vars

\* a driver's handleEvent came back with SMInactive
C3_Witness ==
    /\ call = "handleEvent" /\ stack = <<>>
    /\ exc.kind = "SMInactiveException"
    /\ ~started /\ ~heap[currState].inited /\ trace = <<>>

\* ------------------------------------------------------- deferral order
IsDrain(i) == stack[i].fn = "processDeferralQueue"

\* entries are in the order of their pushes
InPushOrder(q) == \A i, j \in 1..Len(q) : i < j => q[i].id < q[j].id

\* C4: within one drain pass the snapshot is replayed in push order: the
\* entry under replay was pushed before every entry of the same snapshot
\* that still waits, and while its replay (with the transition, the entry
\* sequence and the nested drain it triggers) is on the stack above the
\* pass, the later entries have not begun.
C4_SnapshotInPushOrder ==
    /\ InPushOrder(deferralQueue)
    /\ \A i \in 1..Len(stack) : IsDrain(i) =>
         /\ InPushOrder(stack[i].local)
         /\ \A id \in Ids(stack[i].local) : stack[i].cur < id
         /\ i < Len(stack) => stack[i].cur # 0 /\ stack[i + 1].fn \in
                {"processSingleEvent", "handleStateEntry", "processDeferralQueue"}

\* the replay of E1 made a transition whose nested drain is running while
\* E2 still waits in the outer snapshot
C4_Witness ==
    \E i, j \in 1..Len(stack) :
        /\ i < j /\ IsDrain(i) /\ IsDrain(j)
        /\ stack[i].local # <<>> /\ stack[i].cur # 0
        /\ stack[j].cur # 0

\* a drain pass is about to begin the replay of its next entry
AtReplay == Running /\ Top.fn = "processDeferralQueue" /\ Top.local # <<>>

\* the deferred events whose replay has not begun
Waiting == Ids(deferralQueue) \cup UNION {Ids(stack[i].local) : i \in 1..Len(stack)}

\* those held by the snapshots of the passes that enclose the running one
WaitingOutside == UNION {Ids(stack[i].local) : i \in 1..(Len(stack) - 1)}

\* C5 as stated: deferred events are replayed strictly in the order of their
\* deferral, nested drains included: the entry whose replay begins is the
\* oldest one waiting.
C5_Original ==
    AtReplay => \A id \in Waiting : TakeDeferred(Top.local).item.id <= id

\* C5: deferred events are replayed in the order of their deferral except
\* for the entries held by an enclosing pass: when a replay begins, every
\* event deferred earlier and not yet replayed waits in the snapshot of an
\* outer drain pass, whose item triggered the transition being drained.
C5_DeferralOrder ==
    AtReplay => \A id \in Waiting \ WaitingOutside : TakeDeferred(Top.local).item.id <= id

\* a nested pass begins a replay while an older entry still waits in the
\* snapshot of an outer pass
C5_Witness ==
    /\ AtReplay
    /\ \E id \in WaitingOutside : id < Top.local[1].id
    /\ deferralQueue = <<>>

\* ------------------------------------------------- lifecycle of SubStates
Hook(op, s, a) == [op |-> op, st |-> s, evt |-> "-", arg |-> a]

\* a mark of the trace that records a drain taking the queue: no call of the
\* program
IsTake(x) == x.op = "take"

NotTake(x) == ~IsTake(x)

\* what a step adds to the trace, the marks of a drain left out
Added == SelectSeq(SubSeq(trace', Len(trace) + 1, Len(trace')), NotTake)

AddedOps == {Added[i].op : i \in 1..Len(Added)}

At(pc) == Running /\ Top.fn = "processSingleEvent" /\ Top.pc = pc

AtSubStateBranch == Applying /\ Top.tr.k = "State" /\ IsSubState(Top.tr.inst)

AtReturnToParent == Applying /\ Top.tr.k = "ReturnToParent" /\ IsSubState(currState)

\* the chain is being exited for a plain new state
ExitingChain ==
    /\ stack # <<>> /\ Top.fn = "processSingleEvent"
    /\ Top.pc \in {"exitStateChain", "enter"} /\ ~IsSubState(Top.tr.inst)

\* the states of the active chain that are paused under a SubState
Paused == {Chain(currState)[i] : i \in 2..Len(Chain(currState))}

\* C6: entering a SubState calls onPreemption() and never beforeExit() on
\* the state it preempts; ReturnToParent calls beforeExit() on the child and
\* onResumeFromSubstate(payload) on the parent, and neither calls the
\* parent's onEntry() again nor dispatches a new launch event to it.
C6_PreemptResumeSymmetry ==
    /\ [](~ExitingChain => \A p \in Paused : heap[p].nExit = 0 /\ heap[p].nEntry <= 1)
    /\ [][ /\ AtSubStateBranch =>
                /\ Added = <<Hook("onPreemption", currState, 0)>>
                /\ heap' = heap /\ currState' = currState
           /\ At("enter") /\ IsSubState(Top.tr.inst) =>
                /\ currState' = Top.tr.inst
                /\ Added = <<Hook("info", Top.tr.inst, 0), Hook("onEntry", Top.tr.inst, 0)>>
                /\ heap'[currState] = heap[currState]
           /\ AtReturnToParent =>
                /\ Added = <<Hook("getReturnPayload", currState, Top'.payload)>>
                /\ heap' = heap /\ currState' = currState
           /\ At("beforeExit") =>
                /\ Added = <<Hook("beforeExit", currState, 0)>>
                /\ heap'[currState].nExit = 1 /\ currState' = currState
                /\ heap'[heap[currState].parent] = heap[heap[currState].parent]
           /\ At("resume") =>
                /\ currState' = heap[currState].parent
                /\ Added = <<Hook("onResumeFromSubstate", currState', Top.payload)>>
                /\ heap' = heap
                /\ Top'.fn = "processSingleEvent" /\ Top'.pc = "drain"
           /\ At("drain") =>
                /\ Added = <<>> /\ heap' = heap /\ currState' = currState
                /\ stack' = Pop \/ Top'.fn = "processDeferralQueue"
         ]_vars

\* a child has returned to its parent: the parent was preempted, never
\* exited, resumed with the child's payload, and the child was exited
C6_Witness ==
    /\ At("drain")
    /\ heap[currState].nEntry = 1 /\ heap[currState].nExit = 0
    /\ \E i \in 1..Len(heap) :
         /\ heap[i].parent = currState /\ heap[i].nExit = 1
         /\ trace[Len(trace)] = Hook("onResumeFromSubstate", currState, getReturnPayload(i))

\* --------------------------------------------------- exit of a whole chain
AtEnterNewState == At("enter") /\ ~IsSubState(Top.tr.inst)

ExitHooks(ch) == [i \in 1..Len(ch) |-> Hook("beforeExit", ch[i], 0)]

LastOf(seq, n) == SubSeq(seq, Len(seq) - n + 1, Len(seq))

\* C7: when a plain new state Z replaces a SubState chain, beforeExit() has
\* run exactly once on every state of the chain, leaf first and root last,
\* before the active pointer becomes Z and before Z.onEntry() runs.
C7_ChainExitOrder ==
    /\ [](AtEnterNewState =>
            LET ch == Chain(currState)
            IN  /\ Len(trace) >= Len(ch)
                /\ LastOf(trace, Len(ch)) = ExitHooks(ch)
                /\ \A i \in 1..Len(ch) : heap[ch[i]].nExit = 1
                /\ currState # Top.tr.inst
                /\ heap[Top.tr.inst].nEntry = 0)
    /\ [][AtEnterNewState =>
            /\ currState' = Top.tr.inst
            /\ Added = <<Hook("info", Top.tr.inst, 0), Hook("onEntry", Top.tr.inst, 0)>>]_vars

\* Root -> Mid -> Leaf has been exited for a state that Root's handler
\* returned for an event bubbled from Leaf
C7_Witness ==
    /\ AtEnterNewState
    /\ Len(Chain(currState)) = 3
    /\ Len(trace) > 3
    /\ trace[Len(trace) - 3] =
         [op |-> "handler", st |-> Chain(currState)[3], evt |-> Top.evt, arg |-> 0]

\* --------------------------------------------------------------- bubbling
Objects == 1..Len(heap)

\* s is a SubState without a handler for e, its parent has one
BubblesToParent(s, e) ==
    IsSubState(s) /\ ~HasHandler(s, e) /\ HasHandler(heap[s].parent, e)

\* the handler that took the dispatch being applied, NoState if none did
Handled ==
    IF trace # <<>> /\ trace[Len(trace)].op = "handler"
    THEN trace[Len(trace)].st ELSE NoState

\* v is a value the body of on_<e> of P can hand to react
Produces(P, e, v) ==
    \E o \in HandlerBody(P, e) :
        \/ o.k = v.k /\ v.inst = NoState
        \/ o.k = "reenterCatch" /\ v = Value("nullTransition")
        \/ /\ o.k = "new" /\ v.k = "State" /\ v.inst \in Objects
           /\ heap[v.inst] = NewObject(o.c, IF IsSubStateClass(o.c) THEN P ELSE NoState)

\* C8: for a SubState X without a handler for E whose parent P has one, the
\* dispatch of E to X is the dispatch of E to P (same handler on the same
\* object, hence the same transition result), and the engine applies the
\* value P's handler returned.
C8_BubblingTransparency ==
    /\ [](\A X \in Objects, E \in Events :
            BubblesToParent(X, E) =>
               LET rX == react(X, E)
                   rP == react(heap[X].parent, E)
               IN  /\ rX.found
                   /\ rX.owner = rP.owner
                   /\ rX.visited = rP.visited \cup {X})
    /\ [](Applying /\ Handled # NoState /\ Handled # currState =>
            /\ Produces(Handled, Top.evt, Top.tr)
            /\ \E i \in 2..Len(Chain(currState)) :
                 /\ Chain(currState)[i] = Handled
                 /\ BubblesToParent(Chain(currState)[i - 1], Top.evt))

\* the engine applies a new state that the parent's handler returned for an
\* event its active child does not handle
C8_Witness ==
    /\ Applying /\ Top.tr.k = "State"
    /\ IsSubState(currState) /\ Handled = heap[currState].parent
    /\ BubblesToParent(currState, Top.evt)

\* --------------------------------------------------------- handler lookup
AtReact == At("react")

Min(S) == CHOOSE x \in S : \A y \in S : x <= y

\* positions of the chain, counted from the leaf, that define on_<e>
Defining(ch, e) == {i \in 1..Len(ch) : HasHandler(ch[i], e)}

\* C9: a dispatch invokes exactly one handler, the one of the state nearest
\* to the leaf that defines on_<name>, whatever its ancestors define; when
\* no state of the chain defines one, no handler is invoked and the dispatch
\* ends as an unhandled event at the engine.  The engine invokes handlers
\* in dispatches only; a react call of a driver finds its handler by the
\* same rule, from the state it is called on.
C9_NearestHandler ==
    [][ /\ AtReact =>
             LET ch == Chain(currState)
                 d  == Defining(ch, Top.evt)
             IN  IF d = {}
                 THEN /\ Added = <<>>
                      /\ exc'.kind = "UnhandledEvtException"
                      /\ stack' = SetTop([Top EXCEPT !.pc = "reacting"])
                 ELSE /\ Added = << [op |-> "handler", st |-> ch[Min(d)], evt |-> Top.evt, arg |-> 0] >>
                      /\ exc' = NoExc
                      /\ Len(stack') = Len(stack) + 1
                      /\ Top'.fn = "handler" /\ Top'.st = ch[Min(d)] /\ Top'.evt = Top.evt
                      /\ Top'.data = Top.data
        /\ Running /\ Top.fn = "react" /\ Top.pc = "react" =>
             LET ch == Chain(Top.st)
                 d  == Defining(ch, Top.evt)
             IN  IF d = {}
                 THEN /\ Added = <<>>
                      /\ exc'.kind = "UnhandledEvtException"
                      /\ stack' = Pop
                 ELSE /\ Added = << [op |-> "handler", st |-> ch[Min(d)], evt |-> Top.evt, arg |-> 0] >>
                      /\ exc' = NoExc
                      /\ Len(stack') = Len(stack) + 1
                      /\ Top'.fn = "handler" /\ Top'.st = ch[Min(d)] /\ Top'.evt = Top.evt
                      /\ Top'.data = Top.data
        /\ ~AtReact /\ ~(Running /\ Top.fn = "react" /\ Top.pc = "react") /\ call' = call =>
             "handler" \notin AddedOps
      ]_vars

\* with Root -> Mid -> Leaf active, an event Leaf does not handle runs Mid's
\* handler although Root defines one too
C9_Witness ==
    /\ stack # <<>> /\ Top.fn = "handler" /\ Top.pc = "body"
    /\ Len(Chain(currState)) = 3
    /\ Top.st = Chain(currState)[2]
    /\ ~HasHandler(currState, Top.evt)
    /\ HasHandler(Chain(currState)[3], Top.evt)

\* ------------------------------------------------ unhandled-event identity
\* the UnhandledEvtException of a dispatch has reached processSingleEvent
AtUnhandled ==
    /\ Throwing /\ Top.fn = "processSingleEvent" /\ Top.pc = "reacting"
    /\ exc.kind = "UnhandledEvtException"

RootOf(s) == Chain(s)[Len(Chain(s))]

\* C10 as stated: the error names the state the event was dispatched to,
\* also when that state is a SubState whose ancestors lack the handler.
C10_Original ==
    AtUnhandled => exc.st = currState /\ exc.evt = Top.evt

\* C10: the error names E and the state whose lookup failed last: S itself
\* when S is a plain State, the root of S's parent chain when S is a
\* SubState (no state of the chain defines the handler then).
C10_UnhandledNamesRoot ==
    AtUnhandled =>
        /\ exc.evt = Top.evt
        /\ exc.st = RootOf(currState)
        /\ ~IsSubState(currState) => exc.st = currState
        /\ \A i \in 1..Len(Chain(currState)) : ~HasHandler(Chain(currState)[i], Top.evt)

\* an event nobody handles was dispatched to a SubState two levels deep
C10_Witness ==
    /\ AtUnhandled
    /\ Len(Chain(currState)) = 3
    /\ exc.st # currState

\* ------------------------------------------------- order of ReturnToParent
\* processDeferralQueue() is about to be called
AtDrainCall == Running /\ Top.pc = "drain"

\* the three hooks of a return from child c to parent p
ReturnHooks(c, p) ==
    << Hook("getReturnPayload", c, getReturnPayload(c)),
       Hook("beforeExit", c, 0),
       Hook("onResumeFromSubstate", p, getReturnPayload(c)) >>

\* a drain pass has taken its snapshot right after a parent was resumed
FirstReplayAfterResume ==
    /\ Running /\ Top.fn = "processDeferralQueue"
    /\ Top.local = Top.snap /\ Top.t0 = Len(trace)
    /\ Len(trace) >= 2 /\ IsTake(trace[Len(trace)])
    /\ trace[Len(trace) - 1].op = "onResumeFromSubstate"

\* C11: when ReturnToParent is applied with SubState Child active, the engine
\* calls Child.getReturnPayload(), then Child.beforeExit(), then makes
\* Child.parent the active state and calls its onResumeFromSubstate with the
\* payload of the first step; only then it drains, taking the whole queue,
\* and the first deferred event is dispatched with Parent active.
C11_ReturnToParentOrder ==
    /\ [](At("drain") =>
            \E c \in Objects :
                /\ IsSubState(c) /\ heap[c].parent = currState
                /\ heap[c].nExit = 1
                /\ Len(trace) >= 3
                /\ LastOf(trace, 3) = ReturnHooks(c, currState))
    /\ [][ /\ At("drain") =>
                /\ currState' = currState /\ heap' = heap /\ Added = <<>>
                /\ deferralQueue' = <<>>
                /\ IF deferralQueue = <<>> THEN stack' = Pop
                   ELSE Top'.fn = "processDeferralQueue" /\ Top'.local = deferralQueue
           /\ FirstReplayAfterResume =>
                /\ currState' = currState /\ currState = trace[Len(trace) - 1].st
                /\ Added = <<>>
                /\ Top'.fn = "processSingleEvent" /\ Top'.pc = "react"
                /\ Top'.evt = Top.snap[1].evt /\ Top'.data = Top.snap[1].data
         ]_vars

\* the parent's own handler runs for an event that was deferred before the
\* child returned, right after the parent was resumed
C11_Witness ==
    /\ Len(stack) >= 3 /\ Top.fn = "handler" /\ Top.pc = "body"
    /\ Top.st = currState /\ Top.evt = "key"
    /\ stack[Len(stack) - 2].fn = "processDeferralQueue"
    /\ stack[Len(stack) - 2].t0 = Len(trace) - 1
    /\ Len(trace) >= 5 /\ IsTake(trace[Len(trace) - 1])
    /\ \E c \in Objects : SubSeq(trace, Len(trace) - 4, Len(trace) - 2) = ReturnHooks(c, currState)

\* ------------------------------------------- ReturnToParent outside a SubState
AtReturnToParentMisuse == Applying /\ Top.tr.k = "ReturnToParent" /\ ~IsSubState(currState)

\* a driver's call came back with the misuse error
MisuseAtCaller == stack = <<>> /\ call = "handleEvent" /\ exc.kind = "AFSMError"

\* C12: a handler that returns ReturnToParent while the active state is not
\* a SubState makes the dispatch raise an error; no hook (getReturnPayload,
\* beforeExit, onResumeFromSubstate) is called and the active state and the
\* deferral queue are unchanged; a direct handleEvent hands the error to its
\* caller.
C12_ReturnToParentMisuse ==
    /\ [][AtReturnToParentMisuse => Rejected("AFSMError")]_vars
    /\ [][AtReturnToParentMisuse /\ Len(stack) = 1 => MisuseAtCaller']_vars
    /\ [](MisuseAtCaller =>
            /\ ~IsSubState(currState) /\ ~smBusy
            /\ trace = << [op |-> "handler", st |-> currState, evt |-> trace[1].evt, arg |-> 0] >>)

\* the error reached the driver from a plain state that had deferred events
C12_Witness ==
    /\ MisuseAtCaller
    /\ heap[currState].cls = "Root" /\ heap[currState].nExit = 0
    /\ deferralQueue # <<>>

\* ------------------------------------------------------ when the queue drains
BetweenCalls == stack = <<>> /\ call = "none"

\* C13 as stated: every handleEvent call fully drains the deferral queue
\* before it returns, so the queue is empty between two top-level calls.
C13_Original == BetweenCalls => deferralQueue = <<>>

\* C13: a call drains the queue only where an entry sequence ends and after
\* a ReturnToParent, and that drain takes every event queued at that moment;
\* a dispatch whose result is Defer, Null or void returns without draining,
\* and the queue changes in no other way than a push or a drain.
C13_DrainOnlyAfterTransition ==
    [][ /\ AtDrainCall =>
             /\ deferralQueue' = <<>>
             /\ deferralQueue # <<>> => Top'.fn = "processDeferralQueue" /\ Top'.local = deferralQueue
        /\ Applying /\ Top.tr.k \in {"deferralTransition", "nullTransition", "undefined"} =>
             /\ stack' = Pop /\ currState' = currState
             /\ Len(deferralQueue') >= Len(deferralQueue)
        /\ Len(deferralQueue') > Len(deferralQueue) =>
             /\ Applying /\ Top.tr.k = "deferralTransition"
             /\ Len(deferralQueue') = Len(deferralQueue) + 1
        /\ Len(deferralQueue') < Len(deferralQueue) => AtDrainCall
      ]_vars

\* a direct dispatch deferred its event and returned to the driver with the
\* event still queued
C13_Witness ==
    /\ stack = <<>> /\ call = "handleEvent" /\ exc = NoExc
    /\ Len(trace) = 2 /\ trace[2].op = "push"
    /\ deferralQueue # <<>>

\* ------------------------------------------------- the snapshot of a pass
\* a drain pass has visited its whole snapshot and is about to return
PassEnd == Running /\ Top.fn = "processDeferralQueue" /\ Top.local = <<>>

\* the (name, payload) pairs of a queue
Pairs(q) == [i \in 1..Len(q) |-> [evt |-> q[i].evt, data |-> q[i].data]]

Suffix(q, n) == SubSeq(q, Len(q) - n + 1, Len(q))

\* what the trace holds since the pass f took its snapshot
Since(f) == SubSeq(trace, f.t0 + 1, Len(trace))

\* the pass f made one dispatch per snapshot item and each handler answered
\* with deferralTransition
AllDeferred(f) ==
    /\ Len(Since(f)) = 2 * Len(f.snap)
    /\ \A i \in 1..Len(f.snap) :
         /\ Since(f)[2 * i - 1].op = "handler" /\ Since(f)[2 * i - 1].evt = f.snap[i].evt
         /\ Since(f)[2 * i].op = "push" /\ Since(f)[2 * i].evt = f.snap[i].evt
         /\ Since(f)[2 * i].arg = f.snap[i].data

\* C14: a drain pass replays only the entries of its snapshot: what it has
\* still to visit is always a tail of the snapshot, each iteration removes
\* one entry, and every event deferred after the snapshot was taken (a
\* replayed one deferred again included) is in the queue or in the snapshot
\* of a later pass, never in this one; so a pass of n entries whose handlers
\* all defer ends after n dispatches with the same n entries queued in the
\* same order.
C14_SnapshotOnly ==
    /\ [](\A i \in 1..Len(stack) : IsDrain(i) =>
            /\ stack[i].snap # <<>>
            /\ Len(stack[i].local) <= Len(stack[i].snap)
            /\ stack[i].local = Suffix(stack[i].snap, Len(stack[i].local))
            /\ \A old \in Ids(stack[i].snap) :
                 /\ \A new \in Ids(deferralQueue) : old < new
                 /\ \A j \in (i + 1)..Len(stack) : \A new \in Ids(stack[j].snap) : old < new)
    /\ [](PassEnd /\ AllDeferred(Top) =>
            /\ Pairs(deferralQueue) = Pairs(Top.snap)
            /\ InPushOrder(deferralQueue))
    /\ [][Running /\ Top.fn = "processDeferralQueue" /\ Top.local # <<>> =>
            /\ stack'[Len(stack)].fn = "processDeferralQueue"
            /\ stack'[Len(stack)].snap = Top.snap
            /\ stack'[Len(stack)].local = Tail(Top.local)]_vars

\* a pass over three entries, each deferred again, has ended
C14_Witness ==
    /\ PassEnd /\ AllDeferred(Top)
    /\ Len(Top.snap) = MaxQueue
    /\ Len(deferralQueue) = MaxQueue

\* ------------------------------------------------ fault isolation of replay
Warn(kind) == [op |-> "warn", st |-> NoState, evt |-> kind, arg |-> 0]

\* the errors a replayed event can end with
ReplayErrors ==
    {"UnhandledEvtException", "ImproperReactionException", "FinalityReachedException",
     "AFSMError", "Error"}

\* an error raised by the replay of an entry has come back to the pass
AtReplayError == Throwing /\ Top.fn = "processDeferralQueue"

\* the pass on top of the stack, as the next state has it
SamePass == stack'[Len(stack)]

\* C15: an error raised while a drain pass replays one entry (an unhandled
\* event under the rethrowing policy, an improper reaction, FinalityReached,
\* ReturnToParent in a plain state, an exception of a handler) stops at the
\* pass: it is logged with exactly one logger.warn, nothing else changes, the
\* pass goes on with the entries it has still to visit, and a pass returns
\* only without an error and with its whole snapshot visited.
C15_ReplayFaultIsolation ==
    /\ [](AtReplayError => exc.kind \in ReplayErrors /\ Top.cur # 0)
    /\ [][ /\ AtReplayError =>
                /\ Added = <<Warn(exc.kind)>>
                /\ exc' = NoExc
                /\ stack' = stack
                /\ UNCHANGED <<heap, currState, started, smBusy, deferralQueue>>
           /\ AtReplay /\ checkIfFSMReadyToHandleEvt # "none" =>
                /\ Added = <<Warn(checkIfFSMReadyToHandleEvt)>>
                /\ exc' = NoExc
                /\ Len(stack') = Len(stack) /\ SamePass.local = Tail(Top.local)
                /\ UNCHANGED <<heap, currState, started, smBusy, deferralQueue>>
           /\ stack # <<>> /\ Top.fn = "processDeferralQueue" /\ Len(stack') < Len(stack) =>
                /\ exc = NoExc /\ exc' = NoExc
                /\ Top.local = <<>>
         ]_vars

\* a pass over three entries has logged three different errors, one for each
\* entry, and is about to return normally
C15_Witness ==
    /\ PassEnd /\ Len(Top.snap) = 3
    /\ Len(Since(Top)) >= 5
    /\ \E a, b, c \in ReplayErrors :
         /\ Cardinality({a, b, c}) = 3
         /\ SubSeq(Since(Top), Len(Since(Top)) - 4, Len(Since(Top))) \in
              { << Warn(a), h, Warn(b), h, Warn(c) >> :
                   h \in {[op |-> "handler", st |-> currState, evt |-> "key", arg |-> 0]} }

\* ------------------------------------------------------- the entry sequence
\* a state is about to become active: by a transition, or by start()
AtEntry ==
    \/ At("enter")
    \/ Running /\ Top.fn = "start" /\ ~final(currState) /\ ~heap[currState].inited

Entering == IF Top.fn = "start" THEN currState ELSE Top.tr.inst

EntryHooks(s) == <<Hook("info", s, 0), Hook("onEntry", s, 0)>>

\* handleStateEntry is about to call handleEvent("launch")
AtLaunchCall == Running /\ Top.fn = "handleStateEntry" /\ Top.pc = "launch"

\* that call is about to run its readiness check
AtLaunch == AtHandleEvent /\ Top.evt = "launch"

LifecycleHooks ==
    {"onEntry", "beforeExit", "onPreemption", "onResumeFromSubstate", "getReturnPayload"}

\* the activations of processSingleEvent that are inside their try block
Dispatching ==
    {i \in 1..Len(stack) : stack[i].fn = "processSingleEvent" /\ stack[i].pc \in {"react", "reacting"}}

\* the activations of processSingleEvent that are inside their try
\* statement: in the try block, or in the catch block with onUnconsumedEvt
\* called and `finally` still to come
InTryStatement ==
    {i \in 1..Len(stack) :
        stack[i].fn = "processSingleEvent" /\ stack[i].pc \in {"react", "reacting", "finally"}}

\* the engine is running its policy hook for an event no state handled
InUnconsumedHook == stack # <<>> /\ Top.fn = "onUnconsumedEvt"

\* C17 as stated: smBusy is set only while the handler of one dispatch is
\* looked up and executes; it is false whenever a top-level handleEvent or
\* start call has returned, normally or with an error, and it is false
\* before and after every lifecycle hook.
C17_Original ==
    /\ [](smBusy <=> Dispatching # {})
    /\ [](Cardinality(Dispatching) <= 1)
    /\ [](stack = <<>> => ~smBusy)
    /\ [][AddedOps \cap LifecycleHooks # {} => ~smBusy /\ ~smBusy']_vars

\* C17: smBusy is set only inside the try statement of one dispatch, never
\* in two dispatches at once: while the handler is looked up and executes
\* and, when no state handles the event, while onUnconsumedEvt runs; it is
\* false whenever a top-level handleEvent or start call has returned,
\* normally or with an error, and it is false before and after every
\* lifecycle hook (onEntry, beforeExit, onPreemption, onResumeFromSubstate,
\* getReturnPayload).
C17_BusyOnlyWhileDispatching ==
    /\ [](smBusy <=> InTryStatement # {})
    /\ [](Cardinality(InTryStatement) <= 1)
    /\ [](stack = <<>> => ~smBusy)
    /\ [][AddedOps \cap LifecycleHooks # {} => ~smBusy /\ ~smBusy']_vars
    /\ [](InUnconsumedHook => smBusy)
    /\ [][Added = <<Warn("Unconsumed evt")>> => smBusy /\ smBusy']_vars
    /\ [](smBusy /\ Running /\ Top.fn \in {"handler", "hook", "onUnconsumedEvt"} =>
             Top.fn \in {"handler", "onUnconsumedEvt"} /\ Top.pc = "body")

\* a handleEvent call that onUnconsumedEvt makes on its own engine is
\* rejected with RecursiveEventException like one made by a handler, and
\* the dispatch that called the hook ends as it would have without the call
UnconsumedReentryRejected ==
    /\ [](AtHandleEvent /\ Len(stack) >= 2 /\ stack[Len(stack) - 1].fn = "onUnconsumedEvt" =>
             checkIfFSMReadyToHandleEvt = "RecursiveEventException")
    /\ [][InUnconsumedHook /\ Top.pc = "called" =>
             /\ exc.kind = "RecursiveEventException"
             /\ exc' = NoExc /\ stack' = Pop /\ Added = <<>>
             /\ UNCHANGED <<heap, currState, started, deferralQueue, smBusy>>]_vars

\* the call made by onUnconsumedEvt has been rejected
UnconsumedReentryWitness ==
    /\ Throwing /\ InUnconsumedHook /\ Top.pc = "called"
    /\ exc.kind = "RecursiveEventException" /\ smBusy

\* onUnconsumedEvt is running for an event that bubbled through a SubState
\* chain, and the flag is set
C17_UnconsumedBusy ==
    /\ Running /\ InUnconsumedHook /\ Top.pc = "body"
    /\ smBusy /\ IsSubState(currState)
    /\ trace[Len(trace)].op = "onUnconsumedEvt"

\* a direct call has ended with the exception of a handler and the flag is
\* clear
C17_Witness ==
    /\ stack = <<>> /\ call = "handleEvent"
    /\ exc.kind \in {"Error", "ImproperReactionException"}
    /\ Len(trace) = 1 /\ trace[1].op = "handler"
    /\ ~smBusy

\* ------------------------------------------------------ a final active state
\* C18: a final active state is absorbing: while the active state is final
\* no step of a handleEvent call, of start() or of a drain pass, one that is
\* still running or one that is started, changes the active state, calls a
\* handler or a lifecycle hook, logs an entry, or appends to the deferral
\* queue: the queue keeps its entries, or loses them all to a drain that a
\* driver or an entry sequence that is still running starts.  A react call
\* that a driver makes on the final state runs its handler, and changes
\* neither the active state nor the queue and calls no hook either.
C18_FinalAbsorbing ==
    /\ [][final(currState) /\ ~InDirectReact =>
             /\ currState' = currState
             /\ heap' = heap
             /\ AddedOps \subseteq {"warn"}
             /\ \/ Pairs(deferralQueue') = Pairs(deferralQueue)
                \/ /\ AtDrainCall /\ Top.fn \in {"caller", "handleStateEntry"}
                   /\ deferralQueue' = <<>>
             /\ ~smBusy'
         ]_vars
    /\ [][final(currState) /\ InDirectReact =>
             /\ currState' = currState
             /\ Pairs(deferralQueue') = Pairs(deferralQueue)
             /\ AddedOps \subseteq {"handler"}
             /\ \A s \in 1..Len(heap) :
                   /\ s <= Len(heap')
                   /\ heap'[s].nEntry = heap[s].nEntry
                   /\ heap'[s].nExit = heap[s].nExit
             /\ ~smBusy'
         ]_vars

\* a final state was entered by the replay of a deferred event: the pass
\* that replayed it has logged the error of the launch and the rejection of
\* each later entry of its snapshot, and the queue still holds an event
C18_Witness ==
    /\ PassEnd /\ final(currState) /\ currState # 1
    /\ Len(Top.snap) = 3
    /\ Len(trace) >= 3
    /\ LastOf(trace, 3) = << Hook("onEntry", currState, 0),
                             Warn("FinalityReachedException"),
                             Warn("FinalityReachedException") >>
    /\ deferralQueue # <<>>

\* a driver has called processDeferralQueue() with a final state active: the
\* pass has logged the rejection of each entry and the queue is empty
C18_DriverDrain ==
    /\ PassEnd /\ call = "processDeferralQueue" /\ Len(stack) = 1
    /\ final(currState)
    /\ Len(Top.snap) >= 2 /\ Len(trace) = Len(Top.snap)
    /\ \A i \in 1..Len(trace) : trace[i] = Warn("FinalityReachedException")
    /\ deferralQueue = <<>>

\* ------------------------------------------------- lifecycle of an instance
\* the states of the active chain
ActiveChain == {Chain(currState)[i] : i \in 1..Len(Chain(currState))}

\* C19 as stated: between two calls every instance was entered at most once,
\* an instance that was entered and is no longer in the active chain has had
\* beforeExit() called exactly once, and one that is in the chain has not.
C19_Original ==
    BetweenCalls =>
        \A s \in Objects :
            /\ heap[s].nEntry <= 1
            /\ heap[s].nEntry = 1 /\ s \notin ActiveChain => heap[s].nExit = 1
            /\ s \in ActiveChain => heap[s].nExit = 0

\* the chain is what was entered and not exited
ChainIsLive == ActiveChain = {s \in Objects : heap[s].nEntry = 1 /\ heap[s].nExit = 0}

\* C20 as stated: a SubState that becomes active has the state that was
\* active just before, the one onPreemption() was called on, as its parent,
\* and between two calls of a started engine the active chain consists of
\* exactly the states that were entered and not exited.
C20_Original ==
    /\ At("enter") /\ IsSubState(Top.tr.inst) =>
         /\ trace[Len(trace)] = Hook("onPreemption", currState, 0)
         /\ heap[Top.tr.inst].parent = currState
    /\ BetweenCalls /\ heap[currState].nEntry = 1 => ChainIsLive

\* ------------------------------------------------ the unhandled-event hook
UnconsumedCall(s, e) == [op |-> "onUnconsumedEvt", st |-> s, evt |-> e, arg |-> 0]

\* a direct handleEvent call is over and its event was handled by no state
UnhandledAtCaller ==
    /\ stack = <<>> /\ call = "handleEvent"
    /\ trace # <<>> /\ trace[1].op = "onUnconsumedEvt"

\* C21: when no state of the active chain handles the dispatched event the
\* engine calls onUnconsumedEvt once, with the UnhandledEvtException, and at
\* no other point; the default hook rethrows it to the caller of handleEvent,
\* a log-and-ignore override calls logger.warn and makes handleEvent return
\* normally with nothing to apply; the active state and the deferral queue are unchanged
\* and smBusy is false afterwards.
C21_UnconsumedPolicy ==
    /\ [][AtUnhandled =>
             /\ Added = <<UnconsumedCall(exc.st, exc.evt)>>
             /\ Len(stack') = Len(stack) + 1
             /\ Top' = UnconsumedFrame(exc)
             /\ exc' = NoExc
             /\ UNCHANGED <<heap, currState, started, deferralQueue, smBusy>>]_vars
    /\ [][~AtUnhandled => "onUnconsumedEvt" \notin AddedOps]_vars
    /\ [][InUnconsumedHook =>
             /\ stack' = Pop
             /\ Added = IF policy = "ignore" THEN <<Warn("Unconsumed evt")>> ELSE <<>>
             /\ UNCHANGED <<heap, currState, started, deferralQueue, smBusy>>
             /\ policy = "rethrow" => exc' = UnhandledEvtException(Top.st, Top.evt)
             /\ policy = "ignore" => exc' = NoExc]_vars
    /\ [][stack # <<>> /\ Top.fn = "processSingleEvent" /\ Top.pc = "finally" =>
             /\ ~smBusy'
             /\ exc' = exc
             /\ Added = <<>>
             /\ UNCHANGED <<heap, currState, started, deferralQueue>>
             /\ policy = "rethrow" => exc.kind = "UnhandledEvtException" /\ stack' = Pop
             /\ policy = "ignore" =>
                   /\ exc = NoExc
                   /\ stack' = SetTop([Top EXCEPT !.pc = "apply"])
                   /\ Top.tr.k = "undefined"]_vars
    /\ [](UnhandledAtCaller =>
             /\ ~smBusy
             /\ policy = "rethrow" =>
                   /\ Len(trace) = 1
                   /\ exc = UnhandledEvtException(trace[1].st, trace[1].evt)
             /\ policy = "ignore" =>
                   /\ trace = <<trace[1], Warn("Unconsumed evt")>>
                   /\ exc = NoExc)

\* under the log-and-ignore hook a call whose event no state of a SubState
\* chain handles has returned normally, with events still deferred
C21_Witness ==
    /\ UnhandledAtCaller
    /\ policy = "ignore" /\ exc = NoExc
    /\ IsSubState(currState)
    /\ deferralQueue # <<>>

\* ------------------------------------------------- errors of a handler
HandlerErrors == {"ImproperReactionException", "Error", "RecursiveEventException"}

\* an exception other than UnhandledEvtException has come out of react()
AtHandlerError ==
    /\ Throwing /\ Top.fn = "processSingleEvent" /\ Top.pc = "reacting"
    /\ exc.kind # "UnhandledEvtException"

\* the body of a handler is left by an exception
HandlerFails == stack # <<>> /\ Top.fn = "handler" /\ exc'.kind # "none"

\* a direct handleEvent call is over with an error of the handler
HandlerErrorAtCaller ==
    /\ stack = <<>> /\ call = "handleEvent"
    /\ exc.kind \in HandlerErrors

\* the transition results: a State, void, and the three values of
\* SpecialTransition
TransitionResults ==
    {"State", "undefined", "nullTransition", "deferralTransition", "ReturnToParent"}

\* what holds of the errors react() does raise: an exception a handler
\* throws, or the ImproperReactionException for a value react() refuses,
\* reaches the caller of a direct handleEvent as it was raised, no transition
\* is applied, no hook is called, the active state and the deferral queue
\* are unchanged and smBusy is false.
C22_HandlerErrorPropagates ==
    /\ [][HandlerFails =>
             /\ stack' = Pop
             /\ Added = <<>>
             /\ UNCHANGED <<heap, currState, started, deferralQueue>>]_vars
    /\ [][AtHandlerError =>
             /\ exc' = exc
             /\ stack' = Pop
             /\ ~smBusy'
             /\ Added = <<>>
             /\ UNCHANGED <<heap, currState, started, deferralQueue>>]_vars
    /\ [](HandlerErrorAtCaller =>
             /\ Len(trace) = 1 /\ trace[1].op = "handler"
             /\ ~smBusy
             /\ exc.kind = "ImproperReactionException" =>
                   exc = ImproperReactionException(trace[1].st, trace[1].evt))

\* C22 as stated: when the handler of a direct handleEvent returns a value
\* outside the transition results or raises an exception other than
\* UnhandledEvtException, the error reaches the caller of handleEvent as it
\* was raised, no transition is applied, no hook is called, the active
\* state and the deferral queue are unchanged and smBusy is false: no value
\* outside the transition results gets past react().
C22_Original ==
    /\ C22_HandlerErrorPropagates
    /\ [](Applying => Top.tr.k \in TransitionResults)

\* react() has accepted the string 'toString' that the handler of a direct
\* handleEvent returned: processSingleEvent is past its try block with it
C22_Accepted ==
    /\ Applying /\ Top.tr.k = "toString"
    /\ Len(stack) = 1 /\ call = "handleEvent" /\ Top.evt = "bad"
    /\ exc = NoExc /\ ~smBusy

\* an active SubState let the event bubble to a parent whose handler returned
\* an improper value: the caller has the error, the queue still holds events
C22_Witness ==
    /\ HandlerErrorAtCaller
    /\ exc.kind = "ImproperReactionException"
    /\ IsSubState(currState) /\ exc.st # currState
    /\ deferralQueue # <<>>

\* ----------------------------------------------------------------- start()
AtStart == Running /\ Top.fn = "start"

\* the start() call is over
StartReturned == stack = <<>> /\ call = "start"

LaunchCall(s) == [op |-> "handler", st |-> s, evt |-> "launch", arg |-> 0]

\* C23 as stated: start() on an engine whose initial state is final raises
\* FinalityReached and runs nothing of the entry sequence (no onEntry, no
\* launch, no drain); start() on a non-final initial state runs the whole
\* entry sequence on it (logger.info, onEntry, the launch dispatch, the
\* drain) and that state is entered exactly once.
C23_Original ==
    /\ [][AtStart /\ final(currState) =>
             /\ exc' = Raise("FinalityReachedException")
             /\ stack' = <<>>
             /\ Added = <<>>
             /\ UNCHANGED <<heap, currState, smBusy, deferralQueue>>]_vars
    /\ [][AtStart /\ ~started /\ ~final(currState) =>
             /\ currState = 1 /\ heap[1].nEntry = 0
             /\ Added = EntryHooks(1)
             /\ heap'[1].nEntry = 1
             /\ stack' = <<EntryFrame(1)>>
             /\ exc' = NoExc]_vars
    /\ [][call = "start" /\ AtLaunchCall =>
             stack' = <<[Top EXCEPT !.pc = "drain"],
                        EventFrame("handleEvent", "check", "launch", "null")>>]_vars
    /\ [](StartReturned /\ final(currState) =>
             trace = <<>> /\ exc = Raise("FinalityReachedException"))
    /\ [](StartReturned /\ ~final(currState) =>
             /\ exc = NoExc
             /\ trace \in {<<>>, EntryHooks(1) \o <<LaunchCall(1)>>}
             /\ trace # <<>> => currState = 1 /\ heap[1].inited)
    /\ [](heap[1].nEntry <= 1)

\* what holds of start(): on a final initial state it raises FinalityReached
\* and runs nothing of the entry sequence; on a non-final active state whose
\* react() has not run yet (inited is false) it runs the whole entry
\* sequence; on one whose react() has run, in a launch dispatch or in a call
\* of a driver, it sets started and does nothing else.
C23_Start ==
    /\ [][AtStart /\ final(currState) =>
             /\ exc' = Raise("FinalityReachedException")
             /\ stack' = <<>>
             /\ Added = <<>>
             /\ UNCHANGED <<heap, currState, smBusy, deferralQueue>>]_vars
    /\ [][AtStart /\ ~final(currState) /\ ~heap[currState].inited =>
             /\ Added = EntryHooks(currState)
             /\ heap'[currState].nEntry = heap[currState].nEntry + 1
             /\ stack' = <<EntryFrame(currState)>>
             /\ started' /\ exc' = NoExc]_vars
    /\ [][AtStart /\ ~final(currState) /\ heap[currState].inited =>
             /\ started' /\ exc' = NoExc
             /\ stack' = <<>>
             /\ Added = <<>>
             /\ UNCHANGED <<heap, currState, smBusy, deferralQueue>>]_vars
    /\ [][call = "start" /\ AtLaunchCall =>
             stack' = <<[Top EXCEPT !.pc = "drain"],
                        EventFrame("handleEvent", "check", "launch", "null")>>]_vars
    /\ [](StartReturned /\ final(currState) =>
             trace = <<>> /\ exc = Raise("FinalityReachedException"))

\* a driver called react() on the initial state and then start(): the
\* engine is started on a non-final state that was never entered
C23_Skipped ==
    /\ StartReturned /\ exc = NoExc /\ trace = <<>>
    /\ started /\ currState = 1 /\ ~final(1)
    /\ heap[1].inited /\ heap[1].nEntry = 0

\* start() on a final initial state has failed and nothing was entered
C23_Witness ==
    /\ StartReturned
    /\ exc.kind = "FinalityReachedException"
    /\ currState = 1 /\ heap[1].nEntry = 0
    /\ started

\* start() on a non-final initial state has run the entry sequence
C23_Entered ==
    /\ StartReturned
    /\ trace = EntryHooks(1) \o <<LaunchCall(1)>>
    /\ heap[1].nEntry = 1

\* ----------------------------------------------------------- nested drains
\* a pass has control: it is between two items of its snapshot, or past the last
PassHasControl == Running /\ Top.fn = "processDeferralQueue"

\* the calls after which the engine drains: a state was entered or resumed
SettleOps == {"onEntry", "onResumeFromSubstate"}

\* where the trace stood when the pass on top took its snapshot or, if a
\* replay of the pass has entered or resumed a state since, at the last such call
LastSettled ==
    Max({Top.t0} \cup {i \in 1..Len(trace) : i > Top.t0 /\ trace[i].op \in SettleOps})

PushedAfter(n) == {i \in 1..Len(trace) : i > n /\ trace[i].op = "push"}

\* C24 as stated: whenever a replay of a pass has caused a transition, the
\* nested drain of that transition has replayed every event deferred before
\* it by the time the outer pass has control again; what is queued then was
\* pushed after the state was entered or resumed.
C24_Original ==
    PassHasControl => Len(deferralQueue) <= Cardinality(PushedAfter(LastSettled))

\* C24: the same when the state the replay made active is not final (its
\* entry or resume then ends in a drain that takes the whole queue before
\* the outer pass takes its next item); a final state raises from its launch
\* dispatch, nothing is drained, and the outer pass dispatches none of its
\* remaining items.
C24_NestedDrain ==
    /\ [](PassHasControl /\ ~final(currState) =>
             Len(deferralQueue) <= Cardinality(PushedAfter(LastSettled)))
    /\ [][PassHasControl /\ final(currState) /\ Top.local # <<>> =>
             /\ Added = <<[op |-> "warn", st |-> NoState,
                           evt |-> "FinalityReachedException", arg |-> 0]>>
             /\ Len(stack') = Len(stack)
             /\ UNCHANGED deferralQueue]_vars

\* an outer pass is about to take its next item: an earlier item was
\* deferred again, a later one caused a transition whose nested drain
\* replayed it, and only what that replay pushed is queued
C24_Witness ==
    /\ PassHasControl /\ Top.local # <<>> /\ ~final(currState)
    /\ \E i, j, k \in 1..Len(trace) :
          /\ Top.t0 < i /\ i < j /\ j < k
          /\ trace[i].op = "push"
          /\ trace[j].op \in SettleOps
          /\ trace[k].op = "handler" /\ trace[k].evt = "key"
    /\ Len(deferralQueue) = Cardinality(PushedAfter(LastSettled))

\* -------------------------------------------------- the deferral branch
AtDeferral == Applying /\ Top.tr.k = "deferralTransition"

\* C25: when a handler returns deferralTransition the engine appends one
\* entry with the name and payload of the dispatched event to the tail of
\* the deferral queue and leaves the active state, the started flag and the
\* earlier entries as they are; it calls no lifecycle hook and the dispatch
\* ends there, without a drain.
C25_DeferAppends ==
    [][AtDeferral =>
          /\ Pairs(deferralQueue') =
                Append(Pairs(deferralQueue), [evt |-> Top.evt, data |-> Top.data])
          /\ SubSeq(deferralQueue', 1, Len(deferralQueue)) = deferralQueue
          /\ UNCHANGED <<heap, currState, started, smBusy>>
          /\ AddedOps = {"push"} /\ Len(Added) = 1
          /\ stack' = Pop
          /\ exc' = NoExc]_vars

\* a direct call has ended by deferring its event, payload included, behind
\* an entry that was queued already
C25_Witness ==
    /\ stack = <<>> /\ call = "handleEvent" /\ exc = NoExc
    /\ Len(trace) = 2 /\ trace[2].op = "push"
    /\ Len(deferralQueue) >= 2
    /\ deferralQueue[Len(deferralQueue)].evt = trace[2].evt
    /\ deferralQueue[Len(deferralQueue)].data = "A"

\* ---------------------------------------------------- the null transition
AtNull == Applying /\ Top.tr.k \in {"undefined", "nullTransition"}

\* a dispatch is between its readiness check and the branch on its result
BeforeBranch ==
    /\ stack # <<>>
    /\ \/ Top.fn \in {"handleEvent", "handler"}
       \/ Top.fn = "processSingleEvent" /\ Top.pc \in {"react", "reacting"}

\* C26: when a handler returns nullTransition, null or nothing, the dispatch
\* has no effect on the engine: no branch of processSingleEvent runs, the
\* active state, the deferral queue and the started flag are unchanged, and
\* no lifecycle hook is called; nor does the dispatch change any of them or
\* call a hook on its way to the handler and back.
C26_NullNoEffect ==
    /\ [][AtNull =>
             /\ stack' = Pop
             /\ Added = <<>>
             /\ UNCHANGED <<heap, currState, started, smBusy, deferralQueue, exc>>]_vars
    /\ [][BeforeBranch =>
             /\ UNCHANGED <<currState, started, deferralQueue>>
             /\ AddedOps \cap LifecycleHooks = {}]_vars

\* the handler of the active SubState itself answered a direct call with
\* nothing; the events deferred before are still queued
C26_Witness ==
    /\ stack = <<>> /\ call = "handleEvent" /\ exc = NoExc
    /\ Len(trace) = 1 /\ trace[1].op = "handler"
    /\ trace[1].st = currState /\ IsSubState(currState)
    /\ Len(deferralQueue) >= 2

\* ------------------------------------- a plain State from a SubState's handler
\* the handler of the active SubState itself (no bubbling) has returned a
\* new state that is not a SubState
OwnPlainResult ==
    /\ Applying /\ Top.tr.k = "State" /\ ~IsSubState(Top.tr.inst)
    /\ IsSubState(currState) /\ Handled = currState

\* C27 as stated: a plain new State returned by a handler of the active
\* SubState itself is not applied as a top-level transition: the chain is
\* not exited and the active state stays.
C27_Original ==
    [][OwnPlainResult => "beforeExit" \notin AddedOps /\ currState' = currState]_vars

\* the plain State the active SubState's own handler returned has become
\* the active state, after the whole chain was exited
C27_Applied ==
    /\ Running /\ Top.fn = "handleStateEntry" /\ Top.pc = "launch"
    /\ Top.st = currState /\ ~IsSubState(currState)
    /\ \E n \in 3..Len(trace) :
          /\ trace[n - 2].op = "handler" /\ IsSubState(trace[n - 2].st)
          /\ trace[n - 1] = Hook("beforeExit", trace[n - 2].st, 0)
          /\ trace[n] = Hook("beforeExit", heap[trace[n - 2].st].parent, 0)

\* ------------------------------------------- GameEngineFSM: deferred input
\* the drain pass below is replaying a deferred key_press
ReplayingKeyPress ==
    /\ Running /\ Top.fn = "processSingleEvent" /\ Top.pc = "react"
    /\ Top.evt = "key_press"
    /\ Len(stack) >= 2 /\ stack[Len(stack) - 1].fn = "processDeferralQueue"

\* the class whose on_key_press the dispatch reaches, "-" if none does
KeyPressTaker ==
    LET r == react(currState, "key_press")
    IN  IF r.found THEN heap[r.owner].cls ELSE "-"

\* C28 as stated: a key_press deferred while TeleportingSubState was active
\* is never lost: for every interleaving of key_press, teleport_complete and
\* round_end its replay reaches PlayingRound.on_key_press (or is deferred
\* once more by a new TeleportingSubState, to be replayed again), and the
\* replays come in arrival order.
C28_Original ==
    /\ ReplayingKeyPress => KeyPressTaker \in {"PlayingRound", "TeleportingSubState"}
    /\ PassHasControl => InPushOrder(Top.snap)

\* a deferred key_press was replayed to a state without on_key_press, after
\* round_end ended the teleport, and went to the log-and-ignore hook
C28_Lost ==
    /\ Running /\ Top.fn = "processSingleEvent" /\ Top.pc = "apply"
    /\ Len(stack) >= 2 /\ stack[Len(stack) - 1].fn = "processDeferralQueue"
    /\ heap[currState].cls \in {"RoundEnded", "GameOver"}
    /\ trace[Len(trace)] = UnconsumedCall(currState, "key_press")
    /\ deferralQueue = <<>>

\* ------------------------------------------- GameEngineFSM: the final state
GameOverActive == heap[currState].cls = "GameOver"

\* C29 as stated: GameOver is a final state: once it is the active state
\* final() holds for it and every later handleEvent raises
\* FinalityReachedException.
C29_Original ==
    /\ [](GameOverActive => final(currState))
    /\ [][AtHandleEvent /\ GameOverActive => exc' = Raise("FinalityReachedException")]_vars

\* with GameOver active a key_press was accepted, dispatched to it and
\* ended in the log-and-ignore hook; the call returned normally
C29_Dispatched ==
    /\ stack = <<>> /\ call = "handleEvent" /\ exc = NoExc
    /\ GameOverActive /\ heap[currState].inited
    /\ trace = <<UnconsumedCall(currState, "key_press")>>

\* ---------------------------------------------- GameEngineFSM: the edges
\* (from, to, event): the changes of active state the game has
GameEdges ==
    { <<"PreStart", "PlayingRound", "game_configured">>,
      <<"PlayingRound", "TeleportingSubState", "key_press">>,
      <<"TeleportingSubState", "PlayingRound", "teleport_complete">>,
      <<"PlayingRound", "RoundEnded", "round_end">>,
      <<"TeleportingSubState", "RoundEnded", "round_end">>,
      <<"RoundEnded", "PlayingRound", "ready_to_host">>,
      <<"RoundEnded", "GameOver", "launch">> }

\* C30: in GameEngineFSM the active state changes only along the edges of
\* GameEdges, each within the dispatch of the event named; a
\* TeleportingSubState is entered over the PlayingRound it preempts and
\* returns to that same PlayingRound, every other edge leads to an instance
\* that was not active before.
C30_GameEdges ==
    [][currState' # currState =>
          /\ Top.fn = "processSingleEvent"
          /\ <<heap[currState].cls, heap'[currState'].cls, Top.evt>> \in GameEdges
          /\ IF heap[currState].cls = "TeleportingSubState" /\ Top.evt = "teleport_complete"
             THEN currState' = heap[currState].parent /\ heap[currState'].nEntry = 1
             ELSE heap[currState'].nEntry = 0
          /\ heap'[currState'].cls = "TeleportingSubState" => heap'[currState'].parent = currState
      ]_vars

\* round_end has ended a teleport: PreStart, PlayingRound and
\* TeleportingSubState were entered and left, RoundEnded is active
C30_Witness ==
    /\ Len(heap) = 4 /\ currState = 4
    /\ [i \in 1..4 |-> heap[i].cls] =
          <<"PreStart", "PlayingRound", "TeleportingSubState", "RoundEnded">>
    /\ \A i \in 1..4 : heap[i].nEntry = 1
    /\ \A i \in 1..3 : heap[i].nExit = 1

\* the teleport has ended and the preempted PlayingRound is active again
C30_Resumed ==
    /\ heap[currState].cls = "PlayingRound"
    /\ \E s \in 1..Len(heap) :
          heap[s].cls = "TeleportingSubState" /\ heap[s].parent = currState /\ heap[s].nExit = 1

\* a second round is being played
C30_NextRound ==
    /\ heap[currState].cls = "PlayingRound"
    /\ \E s \in 1..Len(heap) : heap[s].cls = "RoundEnded" /\ heap[s].nExit = 1

\* the game is over
C30_GameOver == GameOverActive /\ heap[currState].nEntry = 1

\* --------------------------------------------- when a deferred event leaves
\* a drain is about to take the queue as its snapshot
AtTake == AtDrainCall /\ deferralQueue # <<>>

\* the last point of the running call at which a state was entered or
\* resumed, 0 if none was
SettleIdx == Max({0} \cup {i \in 1..Len(trace) : trace[i].op \in SettleOps})

IsPrefix(p, q) == Len(p) <= Len(q) /\ SubSeq(q, 1, Len(p)) = p

NoSettle(t) == \A i \in 1..Len(t) : t[i].op \notin SettleOps

\* C31 as stated: the queue is taken for replay only by a drain that follows
\* a transition of the running call, calls that only defer or do nothing
\* never shrink it, and nothing that was deferred since the active state was
\* entered or resumed is among what a drain takes: an event deferred by S
\* stays queued while S remains the active state.
C31_Original ==
    /\ [](AtTake => SettleIdx > 0 /\ PushedAfter(SettleIdx) = {})
    /\ [][NoSettle(trace') => IsPrefix(Pairs(deferralQueue), Pairs(deferralQueue'))]_vars

\* a driver has called processDeferralQueue() and the queue holds events
DriverTake == AtTake /\ Top.fn = "caller"

\* C31: the same for the drains of start() and handleEvent, with two
\* exceptions. The drain that ends an entry sequence whose launch dispatch
\* has already moved the engine on (the launch handler of the entered state
\* returned ReturnToParent or a new state) runs with the state that is active
\* by then and replays what this state deferred during the drain of its own
\* resume or entry. And a processDeferralQueue() call of a driver takes the
\* whole queue without any transition, whatever state deferred its events.
C31_ReplayOnlyAfterTransition ==
    /\ [](AtTake /\ ~DriverTake =>
             /\ SettleIdx > 0
             /\ PushedAfter(SettleIdx) # {} =>
                   Top.fn = "handleStateEntry" /\ Top.st # currState)
    /\ [](DriverTake => call = "processDeferralQueue" /\ trace = <<>>)
    /\ [][NoSettle(trace') /\ ~DriverTake =>
             IsPrefix(Pairs(deferralQueue), Pairs(deferralQueue'))]_vars

\* after several calls that only deferred, a SubState has returned to its
\* parent and the drain is about to take all of them
C31_Witness ==
    /\ AtTake /\ Top.fn = "processSingleEvent"
    /\ Len(deferralQueue) >= 2
    /\ PushedAfter(0) = {}
    /\ trace[Len(trace)].op = "onResumeFromSubstate"

\* the drain that ends the entry sequence of a SubState whose launch handler
\* returned to the parent is about to replay what the parent has just deferred
C31_SecondDrain ==
    /\ AtTake /\ Top.fn = "handleStateEntry" /\ Top.st # currState
    /\ PushedAfter(SettleIdx) # {}
    /\ trace[SettleIdx].op = "onResumeFromSubstate" /\ trace[SettleIdx].st = currState

\* a driver's processDeferralQueue() is about to replay events on the state
\* that deferred them and has been active ever since
C31_DriverDrain ==
    /\ DriverTake /\ Len(deferralQueue) >= 2
    /\ heap[currState].cls = "Root" /\ heap[currState].nExit = 0

\* ------------------------------------------- ReturnToParent pops one level
\* the ReturnToParent branch is past its instanceof check
InReturnToParent ==
    /\ Running /\ Top.fn = "processSingleEvent" /\ Top.pc \in {"beforeExit", "resume"}

\* the state whose handler produced the result being applied: the first
\* handler call that precedes the hooks of the branch
RECURSIVE LastHandler(_)
LastHandler(n) ==
    IF n = 0 THEN NoState
    ELSE IF trace[n].op = "handler" THEN trace[n].st
    ELSE LastHandler(n - 1)

\* C32: ReturnToParent pops exactly one level of the active chain: the new
\* active state is the direct parent of the old active leaf, the payload is
\* the old leaf's getReturnPayload(), beforeExit is called on the old leaf
\* and onResumeFromSubstate(payload) on that direct parent, also when the
\* result came from the handler of a farther ancestor reached by bubbling.
C32_ReturnPopsOneLevel ==
    /\ [](InReturnToParent =>
             IsSubState(currState) /\ Top.payload = getReturnPayload(currState))
    /\ [][AtReturnToParent =>
             /\ Added = <<Hook("getReturnPayload", currState, getReturnPayload(currState))>>
             /\ currState' = currState]_vars
    /\ [][At("beforeExit") =>
             Added = <<Hook("beforeExit", currState, 0)>> /\ currState' = currState]_vars
    /\ [][At("resume") =>
             /\ currState' = heap[currState].parent
             /\ Chain(currState') = Tail(Chain(currState))
             /\ Added = <<Hook("onResumeFromSubstate", heap[currState].parent,
                               getReturnPayload(currState))>>
             /\ heap' = heap]_vars

\* a SubState two levels deep let the event bubble to the root, whose handler
\* returned ReturnToParent: the SubState one level deep is active again and
\* was resumed with the payload of the leaf
C32_Witness ==
    /\ At("drain")
    /\ Len(Chain(currState)) = 2
    /\ trace[Len(trace)].op = "onResumeFromSubstate"
    /\ trace[Len(trace)].st = currState
    /\ heap[trace[Len(trace)].arg].parent = currState
    /\ LastHandler(Len(trace)) = RootOf(currState)

\* ------------------------------------------- a transition into a final state
\* a direct handleEvent call is over with FinalityReached although it was
\* accepted and dispatched
FinalEnteredAtCaller ==
    /\ stack = <<>> /\ call = "handleEvent"
    /\ exc.kind = "FinalityReachedException" /\ trace # <<>>

\* the launch call of an entry sequence has failed
EntryFails == Throwing /\ Top.fn = "handleStateEntry"

\* the entry of a final state: the old chain is exited, the final state
\* becomes active and its onEntry runs, the launch dispatch raises
\* FinalityReached and no handler of the final state runs; the handleEvent
\* call that caused the transition fails with FinalityReached (inside a
\* drain the error is logged) and the drain of the entry sequence is skipped
FinalEntrySequence ==
    /\ [](FinalEnteredAtCaller =>
             /\ final(currState) /\ ~heap[currState].inited
             /\ heap[currState].nEntry = 1 /\ heap[currState].nExit = 0
             /\ trace[1].op = "handler"
             /\ LastOf(trace, 2) = EntryHooks(currState)
             /\ \A i \in 2..(Len(trace) - 2) : trace[i].op = "beforeExit"
             /\ Len(trace) >= 4
             /\ ~smBusy)
    /\ [][EntryFails =>
             /\ exc.kind = "FinalityReachedException" /\ final(currState)
             /\ Top.pc = "drain"
             /\ stack' = Pop /\ exc' = exc
             /\ Added = <<>>
             /\ UNCHANGED <<heap, currState, deferralQueue>>]_vars
    /\ [][Throwing /\ exc.kind = "FinalityReachedException"
             /\ Top.fn = "processDeferralQueue" =>
             /\ Added = <<Warn("FinalityReachedException")>>
             /\ exc' = NoExc
             /\ UNCHANGED deferralQueue]_vars

\* C34 as stated: a final state is entered as above, and what is in the
\* deferral queue stays there and is never dispatched.
C34_Original ==
    /\ FinalEntrySequence
    /\ [][started /\ final(currState) =>
             /\ Dispatching = {}
             /\ Pairs(deferralQueue') = Pairs(deferralQueue)]_vars

\* a drain is about to take the queue while a final state is active
FinalTake == AtTake /\ started /\ final(currState)

\* C34: a final state is entered as above and no event that is in the
\* deferral queue is ever dispatched. The events stay in the queue as long as
\* no drain is started: the drain of the final state's own entry sequence
\* never runs, a handleEvent call that fails with FinalityReached leaves the
\* queue as it was, and no later handleEvent or start() changes it. A drain
\* that is started while the final state is active takes every entry out of
\* the queue and each is rejected with a logged warning; such a drain is
\* either the one that ends an entry sequence of another state that was
\* still running when the final state was entered (its launch dispatch ran
\* the drain whose replay entered the final state), in the same call, or a
\* processDeferralQueue() call of a driver.
C34_FinalEntry ==
    /\ FinalEntrySequence
    /\ [][started /\ final(currState) =>
             /\ Dispatching = {}
             /\ \/ Pairs(deferralQueue') = Pairs(deferralQueue)
                \/ FinalTake /\ deferralQueue' = <<>>]_vars
    /\ [](FinalTake =>
             \/ DriverTake
             \/ /\ Top.fn = "handleStateEntry" /\ Top.st # currState
                /\ \E i \in 1..Len(trace) :
                      trace[i].op = "onEntry" /\ trace[i].st = currState)
    /\ [](FinalEnteredAtCaller /\ Len(stack) = 0 =>
             \A i \in 1..Len(trace) : trace[i].op \notin {"warn", "push"})
    /\ [][FinalTake =>
             /\ Top'.fn = "processDeferralQueue" /\ Top'.local = deferralQueue]_vars
    /\ [][Running /\ Top.fn = "processDeferralQueue" /\ Top.local # <<>>
             /\ started /\ final(currState) =>
             /\ Added = <<Warn("FinalityReachedException")>>
             /\ Len(stack') = Len(stack)
             /\ Top'.local = Tail(Top.local)]_vars

\* a direct call moved a chain of three states to a final state and failed;
\* the events deferred before are still queued
C34_Witness ==
    /\ FinalEnteredAtCaller
    /\ Len(trace) = 6
    /\ deferralQueue # <<>>

\* a handleEvent call has entered a SubState whose launch handler returned to
\* the parent; the drain of that return has entered a final state by a
\* replay, and the drain that ends the entry sequence of the SubState is
\* about to take the events that are still queued
C34_OuterDrain ==
    /\ FinalTake /\ call = "handleEvent"
    /\ Top.fn = "handleStateEntry" /\ Top.st # currState
    /\ heap[Top.st].cls = "Leaf"

\* that call has returned normally with an empty queue
C34_DrainedAtCaller ==
    /\ stack = <<>> /\ call = "handleEvent" /\ exc = NoExc
    /\ final(currState) /\ deferralQueue = <<>>
    /\ trace[1].op = "handler" /\ trace[1].evt = "go"
    /\ \E i \in 1..Len(trace) : trace[i].op = "push"
    /\ Len(trace) >= 2
    /\ LastOf(trace, 2) = << Warn("FinalityReachedException"),
                             Warn("FinalityReachedException") >>

\* a driver has called processDeferralQueue() with the final state active:
\* the events that were queued are gone, each with a warning
C34_Discarded ==
    /\ stack = <<>> /\ call = "processDeferralQueue" /\ exc = NoExc
    /\ final(currState) /\ ~heap[currState].inited
    /\ deferralQueue = <<>>
    /\ Len(trace) >= 2
    /\ \A i \in 1..Len(trace) : trace[i] = Warn("FinalityReachedException")

\* ------------------------------------------------------- the started flag
\* start() is called on an engine whose active state has been launched
AtRestart == AtStart /\ ~final(currState) /\ heap[currState].inited

\* C35: the started flag is set by start() before any check and is never
\* reset: once start() has been called, also when that call failed with
\* FinalityReached, no handleEvent raises SMInactive; a second start() on
\* an engine whose active state has been launched runs no entry sequence
\* and changes neither the active state nor the deferral queue.
C35_StartedMonotonic ==
    /\ [][started => started']_vars
    /\ [][AtStart => started']_vars
    /\ [](call = "start" /\ stack = <<>> => started)
    /\ [][AtHandleEvent /\ exc'.kind = "SMInactiveException" => ~started]_vars
    /\ [][AtRestart =>
             /\ stack' = <<>> /\ exc' = NoExc
             /\ Added = <<>>
             /\ UNCHANGED <<heap, currState, deferralQueue, smBusy>>]_vars

\* after a start() that failed on a final initial state, a handleEvent call
\* has been rejected with FinalityReached, not with SMInactive
C35_Witness ==
    /\ stack = <<>> /\ call = "handleEvent"
    /\ exc.kind = "FinalityReachedException" /\ trace = <<>>
    /\ currState = 1 /\ heap[1].nEntry = 0
    /\ started

\* a second start() has returned with the engine in a SubState and events
\* deferred: nothing was entered
C35_Restarted ==
    /\ StartReturned /\ exc = NoExc /\ trace = <<>>
    /\ IsSubState(currState) /\ deferralQueue # <<>>

\* ------------------------------------------ priority of the readiness checks
\* the readiness check of a replay in a drain pass
AtReplayCheck == PassHasControl /\ Top.local # <<>>

\* C36: the readiness checks are applied in a fixed priority: not started
\* gives SMInactive whatever the other two conditions are, started with a
\* final active state gives FinalityReached whether busy or not,
\* RecursiveEvent is raised only when the engine is started, the active
\* state is not final and busy is set; a rejected call raises exactly one of
\* them and nothing else happens.
C36_CheckPriority ==
    /\ [](\A f, b \in BOOLEAN :
             /\ ReadyCheck(FALSE, f, b) = "SMInactiveException"
             /\ ReadyCheck(TRUE, TRUE, b) = "FinalityReachedException"
             /\ ReadyCheck(TRUE, FALSE, b) =
                   IF b THEN "RecursiveEventException" ELSE "none")
    /\ [][AtHandleEvent =>
             IF ~started THEN Rejected("SMInactiveException")
             ELSE IF final(currState) THEN Rejected("FinalityReachedException")
             ELSE IF smBusy THEN Rejected("RecursiveEventException")
             ELSE exc' = NoExc /\ Len(stack') = Len(stack)]_vars
    /\ [][AtReplayCheck =>
             IF ~started THEN Added = <<Warn("SMInactiveException")>>
             ELSE IF final(currState) THEN Added = <<Warn("FinalityReachedException")>>
             ELSE IF smBusy THEN Added = <<Warn("RecursiveEventException")>>
             ELSE Added = <<>> /\ Len(stack') = Len(stack) + 1]_vars
    /\ [](exc.kind = "RecursiveEventException" => started /\ ~final(currState))

\* a call on an engine that is not started and whose state is final has
\* been rejected with SMInactive
C36_Witness ==
    /\ stack = <<>> /\ call = "handleEvent"
    /\ exc = Raise("SMInactiveException")
    /\ ~started /\ final(currState)

\* ------------------------------------------ what a pass leaves in the queue
IsPush(x) == x.op = "push"

\* the (name, payload) pairs pushed in the stretch t of the trace, in order
PushPairs(t) ==
    LET p == SelectSeq(t, IsPush)
    IN  [i \in 1..Len(p) |-> [evt |-> p[i].evt, data |-> p[i].arg]]

IsSuffix(s, q) == Len(s) <= Len(q) /\ Suffix(q, Len(s)) = s

\* one iteration of the loop: the item is rejected with one warning and no
\* dispatch, or dispatched once with its own name and payload
OneAttempt ==
    LET item == Head(Top.local)
    IN  /\ stack'[Len(stack)].local = Tail(Top.local)
        /\ \/ /\ Added = <<Warn(checkIfFSMReadyToHandleEvt)>>
              /\ checkIfFSMReadyToHandleEvt # "none"
              /\ Len(stack') = Len(stack)
           \/ /\ Added = <<>>
              /\ checkIfFSMReadyToHandleEvt = "none"
              /\ Len(stack') = Len(stack) + 1
              /\ stack'[Len(stack')] =
                    EventFrame("processSingleEvent", "react", item.evt, item.data)

\* C37 as stated: a pass neither duplicates nor drops events: each item of
\* the snapshot leads to one dispatch attempt or one logger.warn, and after
\* the pass the queue holds exactly the events that were deferred during the
\* pass, in the order they were deferred.
C37_Original ==
    /\ [][AtReplayCheck => OneAttempt]_vars
    /\ [](PassEnd => Pairs(deferralQueue) = PushPairs(Since(Top)))

\* the place in the trace of the last drain that took a queue with entries
\* inside the pass of frame f; where the pass began if there was none
LastTakeIn(f) == Max({f.t0} \cup {i \in 1..Len(trace) : i > f.t0 /\ IsTake(trace[i])})

\* what the trace holds after that place
AfterLastTake(f) == SubSeq(trace, LastTakeIn(f) + 1, Len(trace))

\* a step that changes the queue appends one entry to it, and is logged as a
\* push, or is a drain that takes all of it as its snapshot
QueueStep ==
    \/ Pairs(deferralQueue') = Pairs(deferralQueue) /\ "push" \notin AddedOps
    \/ Pairs(deferralQueue') = Pairs(deferralQueue) \o PushPairs(Added) /\ Len(Added) = 1
    \/ /\ AtDrainCall /\ deferralQueue # <<>> /\ deferralQueue' = <<>>
       /\ Top'.fn = "processDeferralQueue" /\ Top'.snap = deferralQueue
       /\ Added = <<>> /\ IsTake(trace'[Len(trace')])

\* C37: each item of the snapshot leads to one dispatch attempt or one
\* logger.warn, and the queue changes only by a deferral, which appends,
\* and by a drain, which takes all of it; after the pass the queue holds, in
\* the order of their deferral, exactly the events deferred during the pass
\* after the last drain that took the queue inside the pass, and all the
\* events deferred during the pass when no drain did. The engine starts a
\* drain inside a pass only after a transition a replay caused, and the entry
\* of a final state starts none.
C37_PassAccounting ==
    /\ [][AtReplayCheck => OneAttempt]_vars
    /\ [][QueueStep]_vars
    /\ [](PassEnd =>
             /\ Pairs(deferralQueue) = PushPairs(AfterLastTake(Top))
             /\ InPushOrder(deferralQueue)
             /\ \A new \in Ids(deferralQueue), old \in Ids(Top.snap) : old < new)
    /\ [](Running /\ Top.fn = "processDeferralQueue" =>
             \A i \in 1..Len(trace) :
                 i > Top.t0 /\ IsTake(trace[i]) =>
                     \E j \in 1..(i - 1) : j > Top.t0 /\ trace[j].op \in SettleOps)
    /\ [](AtDrainCall /\ Top.fn = "handleStateEntry" => ~final(Top.st))

\* a pass over three entries has ended without a transition: one was
\* deferred again and is queued, the others were consumed or failed
C37_Witness ==
    /\ PassEnd /\ Len(Top.snap) = 3
    /\ NoSettle(Since(Top))
    /\ Len(deferralQueue) = 1
    /\ Pairs(deferralQueue) = PushPairs(Since(Top))
    /\ \E i \in 1..Len(trace) : i > Top.t0 /\ trace[i].op = "warn"

\* a pass has ended after a nested drain took what the pass had deferred
C37_NestedTook ==
    /\ PassEnd /\ ~NoSettle(Since(Top))
    /\ LastTakeIn(Top) > Top.t0
    /\ Len(deferralQueue) < Len(PushPairs(Since(Top)))
    /\ ~final(currState)

\* a pass over three entries has ended with a final state active: the first
\* entry was deferred again, the replay of the second entered the final
\* state, the third was rejected, and no drain took the deferred event
C37_FinalKept ==
    /\ PassEnd /\ final(currState) /\ Len(Top.snap) = 3
    /\ LastTakeIn(Top) = Top.t0
    /\ Len(deferralQueue) = 1
    /\ \E i, j \in 1..Len(trace) :
           /\ Top.t0 < i /\ i < j
           /\ IsPush(trace[i])
           /\ trace[j] = Hook("onEntry", currState, 0)
    /\ trace[Len(trace)] = Warn("FinalityReachedException")

\* ---------------------------------------------------------------- C33
\* a lifecycle hook has called handleEvent and the call is at its check
NestedCall == AtHandleEvent /\ Len(stack) >= 2 /\ stack[Len(stack) - 1].fn = "hook"

\* the call a hook made is about to look up the handler
NestedReact ==
    /\ Running /\ Len(stack) >= 2 /\ stack[Len(stack) - 1].fn = "hook"
    /\ Top.fn = "processSingleEvent" /\ Top.pc = "react"

\* a direct handleEvent(e) that on_<e> of an object of class c answered has
\* come back to its caller
DirectHandled(c, e) ==
    /\ stack = <<>> /\ call = "handleEvent"
    /\ trace # <<>> /\ trace[1].op = "handler"
    /\ trace[1].evt = e /\ heap[trace[1].st].cls = c

\* a handleEvent call made from inside a lifecycle hook while a transition
\* is applied finds smBusy reset and is not rejected with RecursiveEvent; it
\* is dispatched to the state currState designates at that moment, which
\* need not be the state whose hook is running; and when the nested call has
\* returned the outer transition goes on, so that the state the outer
\* handler returned is the active one at the caller whatever the nested
\* dispatch entered
HookCallDispatched ==
    /\ [](NestedCall => ~smBusy /\ checkIfFSMReadyToHandleEvt = "none")
    /\ [][NestedCall => /\ exc' = NoExc
                        /\ smBusy'
                        /\ stack' = SetTop([Top EXCEPT !.fn = "processSingleEvent",
                                                       !.pc = "react"])]_vars
    /\ [][NestedReact =>
            LET r == react(currState, Top.evt)
            IN  IF r.found
                THEN trace' = Log("handler", r.owner, Top.evt, 0)
                ELSE exc' = UnhandledEvtException(r.owner, Top.evt)]_vars
    /\ [](DirectHandled("Home", "go") /\ exc.kind = "none"
             => heap[currState].cls = "Target")
    /\ [](DirectHandled("Home", "sub") /\ exc.kind = "none"
             => heap[currState].cls = "Child")

\* the user code whose handleEvent call is at its readiness check
Caller == IF Len(stack) >= 2 THEN stack[Len(stack) - 1].fn ELSE "driver"

\* the readiness check is about to throw RecursiveEventException
RecursiveRejection ==
    AtHandleEvent /\ checkIfFSMReadyToHandleEvt = "RecursiveEventException"

\* C33 as stated: the reentrancy guard covers handlers only, so that every
\* call it rejects is the call of a handler; a handleEvent call made from
\* inside a lifecycle hook while a transition is applied is not rejected, it
\* is dispatched to the state currState designates at that moment, and the
\* outer transition then goes on and may overwrite what the nested dispatch
\* did.
C33_Original ==
    /\ HookCallDispatched
    /\ [](RecursiveRejection => Caller = "handler")

\* C33: the reentrancy guard covers the try statement of a dispatch, that
\* is the handler and the onUnconsumedEvt policy hook, and nothing else. A
\* handleEvent call made from inside a lifecycle hook while a transition is
\* applied is not rejected with RecursiveEvent; it is dispatched to the
\* state currState designates at that moment, and the outer transition then
\* goes on and may overwrite what the nested dispatch did. A call made by
\* onUnconsumedEvt is rejected like one made by a handler.
C33_HookReentry ==
    /\ HookCallDispatched
    /\ UnconsumedReentryRejected
    /\ [](RecursiveRejection => Caller \in {"handler", "onUnconsumedEvt"})
    /\ [](AtHandleEvent /\ Caller = "hook" => ~smBusy)

\* Home --go--> Target has come back without an error: a Side that the ping
\* of Home.beforeExit entered and launched was never exited and is not
\* active
C33_Witness ==
    /\ DirectHandled("Home", "go") /\ exc.kind = "none"
    /\ heap[currState].cls = "Target"
    /\ \E s \in Objects : /\ heap[s].cls = "Side" /\ heap[s].inited
                          /\ heap[s].nEntry = 1 /\ heap[s].nExit = 0
                          /\ \E i \in 1..Len(trace) : trace[i].op = "onEntry" /\ trace[i].st = s

\* the ping of Home.beforeExit was answered by the Child that was active,
\* not by the Home whose hook was running
C33_ActivePointer ==
    /\ DirectHandled("Home", "go")
    /\ \E i \in 2..Len(trace) :
         /\ trace[i].op = "handler" /\ trace[i].evt = "ping" /\ heap[trace[i].st].cls = "Child"
         /\ trace[i - 1].op = "beforeExit" /\ heap[trace[i - 1].st].cls = "Home"

\* the Child that preempted Home is active although the ping of
\* Home.onPreemption has left Home for a Side
C33_PreemptedParentGone ==
    /\ DirectHandled("Home", "sub") /\ exc.kind = "none"
    /\ heap[currState].cls = "Child"
    /\ heap[heap[currState].parent].nExit = 1

\* ---------------------------------------------------------------- C38
\* onEntry of the state a direct handleEvent is entering has thrown
EntryHookFailed ==
    /\ Throwing /\ call = "handleEvent" /\ Len(stack) = 1
    /\ Top.fn = "handleStateEntry" /\ Top.pc = "launch"

\* a direct handleEvent("go") that Home answered has come back with the
\* error of Target.onEntry
EntryFailedAtCaller == DirectHandled("Home", "go") /\ exc.kind = "Error"

\* a direct dispatch is about to react while the active state has never
\* reacted to anything, its launch event included
UnlaunchedReact ==
    /\ Running /\ call = "handleEvent" /\ Len(stack) = 1
    /\ Top.fn = "processSingleEvent" /\ Top.pc = "react"
    /\ ~heap[currState].inited

\* C38: applying a transition is not atomic when a hook fails. When onEntry
\* of the target of a NewState transition reached by a direct handleEvent
\* throws, the error goes to the caller as it is, nothing is rolled back and
\* nothing more is run: at the caller the state that answered the event has
\* had its beforeExit, the target is the active state and has been entered,
\* onEntry is the last thing that ran, so the launch event was not
\* dispatched to the target and the deferral queue was not drained, and the
\* engine is started and not busy. A later handleEvent is accepted and is
\* dispatched to that state, which has never had its launch event.
C38_EntryFailure ==
    /\ [][EntryHookFailed =>
            /\ stack' = <<>> /\ exc' = exc
            /\ UNCHANGED <<heap, currState, started, smBusy, deferralQueue, trace>>]_vars
    /\ [](EntryFailedAtCaller =>
            /\ heap[currState].cls = "Target"
            /\ heap[currState].nEntry = 1 /\ heap[currState].nExit = 0
            /\ ~heap[currState].inited
            /\ trace[Len(trace)].op = "onEntry" /\ trace[Len(trace)].st = currState
            /\ \A i \in 1..Len(trace) :
                 ~(trace[i].op = "handler" /\ trace[i].st = currState)
            /\ heap[trace[1].st].nExit >= 1
            /\ \E i \in 1..Len(trace) : trace[i].op = "beforeExit" /\ trace[i].st = trace[1].st
            /\ started /\ ~smBusy)
    /\ [](AtHandleEvent /\ Len(stack) = 1 /\ started /\ ~heap[currState].inited
             => checkIfFSMReadyToHandleEvt = "none")
    /\ [][UnlaunchedReact =>
            /\ heap'[currState].inited
            /\ LET r == react(currState, Top.evt)
               IN  IF HasHandler(currState, Top.evt)
                   THEN r.found /\ r.owner = currState
                        /\ trace' = Log("handler", currState, Top.evt, 0)
                   ELSE ~IsSubState(currState)
                           => exc' = UnhandledEvtException(currState, Top.evt)]_vars

\* Home --go--> Target has come back with the error of Target.onEntry while
\* events that Home deferred are waiting
C38_Witness ==
    /\ EntryFailedAtCaller
    /\ deferralQueue # <<>>
    /\ heap[currState].cls = "Target" /\ ~heap[currState].inited

\* a handleEvent("key") made after the failure is about to be answered by
\* the Target that was never launched
C38_LaterDispatch ==
    /\ UnlaunchedReact /\ started
    /\ heap[currState].cls = "Target" /\ Top.evt = "key"
    /\ deferralQueue # <<>>

====
